---------------------------- MODULE Spec2Model ----------------------------
(***************************************************************************)
(* Model of the data-analyst agents of this repository:                    *)
(*   - the SQL tools and their safety checks (mindsdb_tool.py,             *)
(*     postgres_direct_tool.py, the _execute_tool methods of the two city  *)
(*     analyzers), on SQL text modelled character by character;            *)
(*   - the three orchestration loops (MindsDBAgent.run,                    *)
(*     CityInsightsAnalyzer.analyze_city and its Gemini twin).             *)
(* Specification SpecTool applies the tool functions to SQL texts drawn    *)
(* from a bounded family; specification Spec runs the three loops against  *)
(* a nondeterministic completion provider and a nondeterministic executor. *)
(***************************************************************************)
EXTENDS Integers, Sequences, FiniteSets, TLC

VARIABLES
    agent,          \* which entry point runs: "mindsdb", "city", "gemini", "tool"
    pc,             \* position of the run inside its loop
    messages,       \* the conversation list (local `messages`)
    iteration,      \* local `iteration` of analyze_city
    retry,          \* local `retry` of MindsDBAgent.run's retry loop
    slept,          \* sleeps performed since the last completion call that returned
    response,       \* the completion response being handled
    tool_results,   \* local `tool_results`: call ids answered in this turn, in order
    calls,          \* number of completion calls issued in this run (observer)
    queries,        \* number of query_database dispatches in this run (observer)
    outcome,        \* how the run ended, "none" while it runs
    overflows,      \* context-overflow errors since the last turn that returned (observer)
    sql,            \* SQL text of the latest tool request
    allow_write,    \* allow_write argument of the latest tool request
    operation,      \* operation argument of the latest tool request
    fn,             \* tool function applied to the latest request
    result,         \* value returned by that tool function
    raw,            \* what the executor or export capability returned
    payload,        \* what the tool branch hands to the conversation
    text,           \* text of the final turn
    answer,         \* what the run returns for that text
    heap,           \* content of each list object of two runs served at once
    runs,           \* locals of each of the two runs
    query,          \* natural-language query handed to the location parser
    location,       \* what the location parser returned for it
    pool,           \* self.pool of the PostgreSQL tool object of the call
    effects,        \* statements and alert calls executed by the call, in order
    job,            \* locals of the call that has side effects
    files,          \* files of the export directory: name and the export that wrote it
    exports,        \* what each export call reported
    clock           \* datetime.now(), in seconds

vars == <<agent, pc, messages, iteration, retry, slept, response, tool_results,
          calls, queries, outcome, overflows, sql, allow_write, operation, fn, result,
          raw, payload, text, answer, heap, runs, query, location,
          pool, effects, job, files, exports, clock>>

(***************************************************************************)
(* Text: a Python str is a sequence of one-character strings.              *)
(***************************************************************************)
LowerLetters == <<"a", "b", "c", "d", "e", "f", "g", "h", "i", "j", "k", "l", "m",
                  "n", "o", "p", "q", "r", "s", "t", "u", "v", "w", "x", "y", "z">>

UpperLetters == <<"A", "B", "C", "D", "E", "F", "G", "H", "I", "J", "K", "L", "M",
                  "N", "O", "P", "Q", "R", "S", "T", "U", "V", "W", "X", "Y", "Z">>

Digits == <<"0", "1", "2", "3", "4", "5", "6", "7", "8", "9">>

Whitespace == {" ", "\n", "\t"}

Range(s) == {s[i] : i \in 1..Len(s)}

IndexOf(s, c) == CHOOSE i \in 1..Len(s) : s[i] = c

LowerSet == Range(LowerLetters)

UpperSet == Range(UpperLetters)

DigitSet == Range(Digits)

UpperOf == [c \in LowerSet |-> UpperLetters[IndexOf(LowerLetters, c)]]

LowerOf == [c \in UpperSet |-> LowerLetters[IndexOf(UpperLetters, c)]]

DigitOf == [c \in DigitSet |-> IndexOf(Digits, c) - 1]

\* str.upper() and str.lower() on one character
UpperChar(c) == IF c \in LowerSet THEN UpperOf[c] ELSE c

LowerChar(c) == IF c \in UpperSet THEN LowerOf[c] ELSE c

upper(s) == [i \in 1..Len(s) |-> UpperChar(s[i])]

lower(s) == [i \in 1..Len(s) |-> LowerChar(s[i])]

\* str.strip(): leading and trailing whitespace removed
strip(s) ==
    LET keep == {i \in 1..Len(s) : s[i] \notin Whitespace}
    IN IF keep = {} THEN <<>>
       ELSE LET lo == CHOOSE i \in keep : \A j \in keep : i <= j
                hi == CHOOSE i \in keep : \A j \in keep : j <= i
            IN SubSeq(s, lo, hi)

startswith(s, p) == Len(s) >= Len(p) /\ \A k \in 1..Len(p) : s[k] = p[k]

\* s[i:] starts with p
MatchAt(s, p, i) == i + Len(p) - 1 <= Len(s) /\ \A k \in 1..Len(p) : s[i + k - 1] = p[k]

\* Python's `p in s`
contains(s, p) == \E i \in 1..(Len(s) + 1) : MatchAt(s, p, i)

IsDigit(c) == c \in DigitSet

DigitValue(c) == DigitOf[c]

\* first index >= i whose character is not in the class, Len(s)+1 when there is none
SkipWhile(s, i, class) ==
    LET stop == {j \in i..Len(s) : s[j] \notin class}
    IN IF stop = {} THEN Len(s) + 1 ELSE CHOOSE j \in stop : \A k \in stop : j <= k

RECURSIVE ParseInt(_)
\* int() of a string of decimal digits
ParseInt(ds) ==
    IF ds = <<>> THEN 0
    ELSE 10 * ParseInt(SubSeq(ds, 1, Len(ds) - 1)) + DigitValue(ds[Len(ds)])

Str_limit == <<"l", "i", "m", "i", "t">>

Str_raw_data == <<"r", "a", "w", "_", "d", "a", "t", "a">>

Str_error_details == <<"e", "r", "r", "o", "r", "_", "d", "e", "t", "a", "i", "l", "s">>

Str_select_star == <<"s", "e", "l", "e", "c", "t", " ", "*">>

\* positions where the pattern limit\s+\d+ matches in s
LimitMatchStarts(s) ==
    {i \in 1..Len(s) :
        /\ MatchAt(s, Str_limit, i)
        /\ LET ws == i + Len(Str_limit)
               d  == SkipWhile(s, ws, Whitespace)
           IN d > ws /\ d <= Len(s) /\ IsDigit(s[d])}

\* re.search(r'limit\s+(\d+)', s): -1 when there is no match, else int(group(1))
\* of the leftmost match
re_search_limit(s) ==
    LET starts == LimitMatchStarts(s)
    IN IF starts = {} THEN -1
       ELSE LET i  == CHOOSE x \in starts : \A y \in starts : x <= y
                d  == SkipWhile(s, i + Len(Str_limit), Whitespace)
                e  == SkipWhile(s, d, DigitSet)
            IN ParseInt(SubSeq(s, d, e - 1))

(***************************************************************************)
(* Tool results.  `error` is a tag for the message string the code builds; *)
(* `executed` records whether the SQL executor (the MindsDB HTTP endpoint  *)
(* or PostgresDirectTool.query) was invoked while computing the result.    *)
(***************************************************************************)
NoResult == [success |-> FALSE, error |-> "none", executed |-> FALSE]

Rejected(reason) == [success |-> FALSE, error |-> reason, executed |-> FALSE]

\* what the MindsDB HTTP endpoint can answer (mindsdb_tool.py 73-107)
HttpOutcomes == {"rows", "error", "timeout", "exception"}

\* what PostgresDirectTool.query can answer (postgres_direct_tool.py 72-107)
PostgresOutcomes == {"rows", "connect_failed", "postgres_error", "exception"}

Executed(out) == [success |-> out = "rows", error |-> IF out = "rows" THEN "" ELSE out, executed |-> TRUE]

write_keywords ==
    { <<"I", "N", "S", "E", "R", "T">>, <<"U", "P", "D", "A", "T", "E">>,
      <<"D", "E", "L", "E", "T", "E">>, <<"A", "L", "T", "E", "R">>,
      <<"C", "R", "E", "A", "T", "E">>, <<"D", "R", "O", "P">>,
      <<"T", "R", "U", "N", "C", "A", "T", "E">> }

\* the limit above which a large-column query is refused
MaxLargeLimit == 10

\* variant of is_write_operation that compares without upper-casing
is_write_operation_case_sensitive(s) ==
    LET sql_upper == strip(s)
    IN \E keyword \in write_keywords : startswith(sql_upper, keyword)

is_write_operation(s) ==
    LET sql_upper == upper(strip(s))
    IN \E keyword \in write_keywords : startswith(sql_upper, keyword)

\* 'raw_data' in sql_lower or 'error_details' in sql_lower
MentionsLargeColumn(s) ==
    LET sql_lower == lower(s)
    IN contains(sql_lower, Str_raw_data) \/ contains(sql_lower, Str_error_details)

\* MindsDBTool.query up to the HTTP request: the reason of the early return taken,
\* "Ok" when the request is sent
MindsDBTool_query_checks(s, aw) ==
    LET sql_lower == lower(s)
        large == MentionsLargeColumn(s)
    IN IF is_write_operation(s) /\ ~aw THEN "WriteNotAllowed"
       ELSE IF large /\ ~contains(sql_lower, Str_limit) THEN "MissingLimitOnLargeColumn"
       ELSE IF large /\ re_search_limit(sql_lower) > MaxLargeLimit THEN "LimitTooHigh"
       ELSE IF contains(sql_lower, Str_select_star) THEN "WildcardProjection"
       ELSE "Ok"

\* MindsDBTool.query: every value it can return for (s, aw)
MindsDBTool_query(s, aw) ==
    LET reason == MindsDBTool_query_checks(s, aw)
    IN IF reason # "Ok" THEN {Rejected(reason)}
       ELSE {Executed(out) : out \in HttpOutcomes}

\* the statement MindsDBTool.count_records builds
count_records_sql ==
    <<"S", "E", "L", "E", "C", "T", " ", "C", "O", "U", "N", "T", "(", "*", ")", " ",
      "a", "s", " ", "t", "o", "t", "a", "l", " ", "F", "R", "O", "M", " ",
      "d", "a", "t", "a", "s", "o", "u", "r", "c", "e", "_", "p", "o", "s", "t", "g", "r", "e", "s", ".",
      "s", "e", "r", "v", "i", "c", "e", "1", "9", "_", "o", "n", "b", "o", "a", "r", "d", "i", "n", "g", "_",
      "d", "a", "t", "a", ";">>

\* MindsDBTool.count_records: query(sql) with allow_write left at its default
MindsDBTool_count_records == MindsDBTool_query(count_records_sql, FALSE)

RECURSIVE IntToStr(_)
\* str(n) for n >= 0
IntToStr(n) == IF n < 10 THEN <<Digits[n + 1]>> ELSE IntToStr(n \div 10) \o <<Digits[(n % 10) + 1]>>

\* the statement of get_sample_data up to its limit, with the column list cut to its
\* first and last column and the line breaks and indentation written as one blank
sample_sql_head ==
    <<" ", "S", "E", "L", "E", "C", "T", " ", "d", "a", "t", "a", "_", "i", "d", ",", " ",
      "e", "r", "r", "o", "r", "_", "m", "e", "s", "s", "a", "g", "e", " ", "F", "R", "O", "M", " ",
      "d", "a", "t", "a", "s", "o", "u", "r", "c", "e", "_", "p", "o", "s", "t", "g", "r", "e", "s", ".",
      "s", "e", "r", "v", "i", "c", "e", "1", "9", "_", "o", "n", "b", "o", "a", "r", "d", "i", "n", "g", "_",
      "d", "a", "t", "a", " ", "L", "I", "M", "I", "T", " ">>

sample_sql_tail == <<";", " ">>

\* MindsDBTool.get_sample_data(limit); get_successful_fetches, get_failed_fetches,
\* search_by_url and get_by_file_type build statements of the same shape
\* (small columns, a trailing LIMIT {limit};) and hand them to query likewise
MindsDBTool_get_sample_data(limit) ==
    MindsDBTool_query(sample_sql_head \o IntToStr(limit) \o sample_sql_tail, FALSE)

\* MindsDBTool.get_statistics: four COUNT statements without LIMIT through query;
\* whatever they answer the method returns success with the statistics
MindsDBTool_get_statistics ==
    IF MindsDBTool_query_checks(count_records_sql, FALSE) = "Ok"
    THEN {[success |-> TRUE, error |-> "", executed |-> TRUE]}
    ELSE {[success |-> TRUE, error |-> "", executed |-> FALSE]}

\* execute_mindsdb_tool(operation, limit, custom_sql = s, allow_write = aw)
execute_mindsdb_tool(op, limit, s, aw) ==
    CASE op = "sample"       -> MindsDBTool_get_sample_data(limit)
      [] op = "count"        -> MindsDBTool_count_records
      [] op = "statistics"   -> MindsDBTool_get_statistics
      [] op = "custom_query" -> IF s = <<>> THEN {Rejected("custom_sql required")}
                                ELSE MindsDBTool_query(s, aw)
      [] op = "alter_table"  -> IF s = <<>> THEN {Rejected("custom_sql required")}
                                ELSE MindsDBTool_query(s, TRUE)
      [] OTHER               -> {Rejected("Unknown operation")}

\* PostgresDirectTool.query: connects, then runs the statement
PostgresDirectTool_query(s) == {Executed(out) : out \in PostgresOutcomes}

\* the LIMIT test of the three PostgreSQL-backed tools
limit_missing(s) == ~contains(lower(s), Str_limit)

\* CityInsightsAnalyzer._execute_tool (the shaping of a successful result keeps
\* success and the original row_count)
CityInsightsAnalyzer_execute_tool(tool_name, s) ==
    IF tool_name = "query_database"
    THEN IF limit_missing(s) THEN {Rejected("LimitRequired")}
         ELSE PostgresDirectTool_query(s)
    ELSE {Rejected("UnknownTool")}

\* CityInsightsAnalyzerGemini._execute_tool
CityInsightsAnalyzerGemini_execute_tool(tool_name, s) ==
    IF tool_name = "query_database"
    THEN IF limit_missing(s) THEN {Rejected("LimitRequired")}
         ELSE PostgresDirectTool_query(s)
    ELSE {Rejected("UnknownTool")}

\* the statement of PostgresDirectTool.query_zebra_crossings ends in LIMIT $1
\* and is run without any check
PostgresDirectTool_query_zebra_crossings == {Executed(out) : out \in PostgresOutcomes}

\* execute_postgres_direct_tool(operation, custom_sql = s)
execute_postgres_direct_tool(op, s) ==
    CASE op = "zebra_crossings" -> PostgresDirectTool_query_zebra_crossings
      [] op = "custom_query"    -> IF s = <<>> THEN {Rejected("custom_sql required")}
                                   ELSE IF limit_missing(s) THEN {Rejected("LimitRequired")}
                                   ELSE PostgresDirectTool_query(s)
      [] OTHER                  -> {Rejected("Unknown operation")}

\* execute_export_tool: writes a file, returns a summary or an error; no SQL is run
execute_export_tool ==
    { [success |-> TRUE, error |-> "", executed |-> FALSE], Rejected("Export failed") }

(***************************************************************************)
(* The family of SQL texts the tools are applied to:                       *)
(*     lead ++ keyword in some letter case ++ " " ++ body ++ tail          *)
(***************************************************************************)
Leads == { <<>>, <<"\n", " ">> }

Keywords ==
    { <<"s", "e", "l", "e", "c", "t">>,
      <<"i", "n", "s", "e", "r", "t">>, <<"u", "p", "d", "a", "t", "e">>,
      <<"d", "e", "l", "e", "t", "e">>, <<"a", "l", "t", "e", "r">>,
      <<"c", "r", "e", "a", "t", "e">>, <<"d", "r", "o", "p">>,
      <<"t", "r", "u", "n", "c", "a", "t", "e">> }

CaseModes == {"lower", "upper", "title", "mixed"}

ApplyCase(w, mode) ==
    [i \in 1..Len(w) |->
        CASE mode = "lower" -> w[i]
          [] mode = "upper" -> UpperChar(w[i])
          [] mode = "title" -> IF i = 1 THEN UpperChar(w[i]) ELSE w[i]
          [] OTHER          -> IF i % 2 = 0 THEN UpperChar(w[i]) ELSE w[i]]

Bodies ==
    { <<"i", "d", " ", "f", "r", "o", "m", " ", "t">>,
      <<"c", "o", "u", "n", "t", "(", "*", ")", " ", "f", "r", "o", "m", " ", "t">>,
      <<"*", " ", "f", "r", "o", "m", " ", "t">>,
      <<" ", "*", " ", "f", "r", "o", "m", " ", "t">>,
      <<"r", "a", "w", "_", "d", "a", "t", "a", " ", "f", "r", "o", "m", " ", "t">>,
      <<"i", "d", ",", " ", "e", "r", "r", "o", "r", "_", "d", "e", "t", "a", "i", "l", "s", " ", "f", "r", "o", "m", " ", "t">>,
      <<"r", "a", "t", "e", "_", "l", "i", "m", "i", "t", " ", "f", "r", "o", "m", " ", "t">>,
      <<"*", ",", " ", "r", "a", "w", "_", "d", "a", "t", "a", " ", "f", "r", "o", "m", " ", "t">> }

Tails ==
    { <<>>,
      <<" ", "l", "i", "m", "i", "t", " ", "5">>,
      <<" ", "L", "I", "M", "I", "T", " ", "1", "0">>,
      <<" ", "l", "i", "m", "i", "t", " ", "1", "1">>,
      <<" ", "L", "I", "M", "I", "T", " ", " ", "2", "0">>,
      <<" ", "l", "i", "m", "i", "t", " ", "5", ")", " ", "s", " ", "l", "i", "m", "i", "t", " ", "5", "0">>,
      <<" ", "l", "i", "m", "i", "t", " ", "a", "l", "l">> }

SqlTexts ==
    { lead \o ApplyCase(kw, mode) \o <<" ">> \o body \o tail :
        lead \in Leads, kw \in Keywords, mode \in CaseModes, body \in Bodies, tail \in Tails }

(***************************************************************************)
(* Tool results as the agents hand them to the conversation.  A row is     *)
(* kept as the length of its repr and the number of UUID values in it; a   *)
(* dict is kept as its keys, its rows and the length of str(dict).         *)
(***************************************************************************)
\* most rows one executor result holds
MaxRows == 6

\* rows by repr length: a short row, a row with a long text, a row with a GeoJSON value
RowKinds == { [w |-> 40, hex |-> 1], [w |-> 700, hex |-> 0], [w |-> 2100, hex |-> 0] }

ExecutorRows == UNION { [1..n -> RowKinds] : n \in 0..MaxRows }

\* repr of the column list of a result
ColumnsRepr == "['data_id', 'city']"

\* the error texts an executor returns, one per return statement that builds one
ExecutorErrors == { "PostgreSQL error: 42703 - column does not exist", "Query failed: timeout" }

\* {"success": True, "data": data, "columns": columns, "row_count": len(data)}
ExecutorSuccess(d) == [success |-> TRUE, data |-> d, columns |-> ColumnsRepr, error |-> ""]

\* {"success": False, "error": ...}
ExecutorFailure(e) == [success |-> FALSE, data |-> <<>>, columns |-> "", error |-> e]

ExecutorResults ==
    { ExecutorSuccess(d) : d \in ExecutorRows } \cup { ExecutorFailure(e) : e \in ExecutorErrors }

\* "row_count": len(data)
row_count(r) == Len(r.data)

\* q[:n]
FirstN(q, n) == SubSeq(q, 1, IF Len(q) < n THEN Len(q) ELSE n)

RECURSIVE SumWidths(_, _)
SumWidths(d, n) == IF n = 0 THEN 0 ELSE d[n].w + SumWidths(d, n - 1)

\* len(repr(list of rows))
ReprListLen(d) ==
    IF d = <<>> THEN Len("[]")
    ELSE Len("[") + SumWidths(d, Len(d)) + (Len(d) - 1) * Len(", ") + Len("]")

\* rows kept by the first cut of _execute_tool
ShapeKeep == 5
\* rows kept by its second cut
ShapeHeavyKeep == 2
\* len(str(result)) above which _execute_tool cuts a second time
ShapeCeiling == 3000
\* len(str(result)) above which MindsDBAgent.run replaces a direct result by a summary
AgentCeiling == 10000
\* rows in that summary
AgentSampleKeep == 3

NoPayload == [kind |-> "none", keys |-> {}, success |-> FALSE, row_count |-> 0, data |-> <<>>,
              columns |-> "", error |-> "", size |-> 0]

\* len(str(p)) of the dict p, from the literal pieces of its repr
StrLen(p) ==
    CASE p.kind = "raw" ->
            Len("{'success': True, 'data': ") + ReprListLen(p.data) + Len(", 'columns': ")
            + Len(p.columns) + Len(", 'row_count': ") + Len(IntToStr(p.row_count)) + Len("}")
      [] p.kind = "error" ->
            Len("{'success': False, 'error': '") + Len(p.error) + Len("'}")
      [] p.kind = "first5" ->
            Len("{'success': True, 'row_count': ") + Len(IntToStr(p.row_count))
            + Len(", 'columns': ") + Len(p.columns) + Len(", 'data': ") + ReprListLen(p.data)
            + Len(", 'note': 'Result truncated to first 5 rows (of ")
            + Len(IntToStr(p.row_count)) + Len(" total) to save context'}")
      [] p.kind = "first2" ->
            Len("{'success': True, 'row_count': ") + Len(IntToStr(p.row_count))
            + Len(", 'columns': ") + Len(p.columns) + Len(", 'data': ") + ReprListLen(p.data)
            + Len(", 'note': 'Result heavily truncated (showing 2 of ")
            + Len(IntToStr(p.row_count)) + Len(" rows) due to size'}")
      [] p.kind = "sample" ->
            Len("{'success': True, 'row_count': ") + Len(IntToStr(p.row_count))
            + Len(", 'columns': ") + Len(p.columns) + Len(", 'data_sample': ") + ReprListLen(p.data)
            + Len(", 'note': 'Result truncated (showed 3/") + Len(IntToStr(p.row_count))
            + Len(" rows). Use export_query_results tool to save full dataset.'}")
      [] p.kind = "unknown_tool" ->
            Len("{'error': '") + Len(p.error) + Len("'}")
      [] p.kind = "export" ->
            Len("{'success': True, 'message': 'Successfully exported ") + Len(IntToStr(p.row_count))
            + Len(" rows to /app/exports/query_results.csv', 'filepath': '/app/exports/query_results.csv'")
            + Len(", 'row_count': ") + Len(IntToStr(p.row_count)) + Len("}")
      [] OTHER -> 0

Sized(p) == [p EXCEPT !.size = StrLen(p)]

\* the executor's dict as it is, before any shaping
Unshaped(r) ==
    IF r.success
    THEN Sized([NoPayload EXCEPT !.kind = "raw", !.keys = {"success", "data", "columns", "row_count"},
                                 !.success = TRUE, !.row_count = row_count(r), !.data = r.data,
                                 !.columns = r.columns])
    ELSE Sized([NoPayload EXCEPT !.kind = "error", !.keys = {"success", "error"}, !.error = r.error])

\* the dict built after the size check, with `count` as the row count it reports
Truncated(r, kind, rows, count) ==
    Sized([NoPayload EXCEPT !.kind = kind, !.keys = {"success", "row_count", "columns", "data", "note"},
                            !.success = TRUE, !.row_count = count, !.data = rows,
                            !.columns = r.columns])

\* the shaping with the truncated list's length reported as row_count
shape_result_kept_count(r, rows) ==
    IF r.success /\ row_count(r) > 0
    THEN LET truncated_data == FirstN(rows, ShapeKeep)
             first == Truncated(r, "first5", truncated_data, Len(truncated_data))
         IN  IF first.size > ShapeCeiling
             THEN Truncated(r, "first2", FirstN(truncated_data, ShapeHeavyKeep),
                            Len(FirstN(truncated_data, ShapeHeavyKeep)))
             ELSE first
    ELSE Unshaped(r)

\* the result shaping of _execute_tool applied to the executor result r whose rows,
\* as the function serializes them, are `rows`
shape_result(r, rows) ==
    IF r.success /\ row_count(r) > 0
    THEN LET truncated_data == FirstN(rows, ShapeKeep)
             first == Truncated(r, "first5", truncated_data, row_count(r))
         IN  IF first.size > ShapeCeiling
             THEN Truncated(r, "first2", FirstN(truncated_data, ShapeHeavyKeep), row_count(r))
             ELSE first
    ELSE Unshaped(r)

\* CityInsightsAnalyzer._execute_tool, after postgres.query returned r
CityInsightsAnalyzer_shape(r) == shape_result(r, r.data)

\* a row after `clean_row[key] = str(value)` for every value with a hex attribute:
\* repr(UUID('...')) becomes repr('...')
clean_row(row) == [w |-> row.w - row.hex * Len("UUID()"), hex |-> 0]

\* CityInsightsAnalyzerGemini._execute_tool, after postgres.query returned r
CityInsightsAnalyzerGemini_shape(r) ==
    shape_result(r, [i \in 1..Len(FirstN(r.data, ShapeKeep)) |-> clean_row(r.data[i])])

\* the query_mindsdb branch of MindsDBAgent.run: result_str = str(result)
MindsDBAgent_attach_mindsdb(r) == Unshaped(r)

\* the query_postgres_direct branch: the summary of the first size check is overwritten
\* by `result_str = str(result)` before the second size check
MindsDBAgent_attach_postgres_direct(r) ==
    LET result_str == Unshaped(r)
    IN  IF result_str.size > AgentCeiling
        THEN Sized([NoPayload EXCEPT !.kind = "sample",
                       !.keys = {"success", "row_count", "columns", "data_sample", "note"},
                       !.success = r.success, !.row_count = row_count(r),
                       !.data = FirstN(r.data, AgentSampleKeep), !.columns = r.columns])
        ELSE result_str

\* the else branch: str({"error": f"Unknown tool: {name}"})
MindsDBAgent_attach_unknown(name) ==
    Sized([NoPayload EXCEPT !.kind = "unknown_tool", !.keys = {"error"},
                            !.error = "Unknown tool: " \o name])

\* ExportTool.export_to_csv / export_to_json on the rows d: the file is written or the
\* write raises
ExportTool_export(d) ==
    { [success |-> TRUE, data |-> d, columns |-> ColumnsRepr, error |-> ""],
      ExecutorFailure("[Errno 28] No space left on device") }

\* execute_export_tool with the rows in its summary
execute_export_tool_with_rows(res) ==
    IF res.success
    THEN Sized([NoPayload EXCEPT !.kind = "export", !.keys = {"success", "message", "filepath", "row_count", "data"},
                                 !.success = TRUE, !.row_count = row_count(res), !.data = res.data])
    ELSE Unshaped(res)

\* execute_export_tool's summary of the ExportTool result res
execute_export_tool_summary(res) ==
    IF res.success
    THEN Sized([NoPayload EXCEPT !.kind = "export", !.keys = {"success", "message", "filepath", "row_count"},
                                 !.success = TRUE, !.row_count = row_count(res)])
    ELSE Unshaped(res)

shapeVars == <<raw, payload>>

NoRaw == ExecutorFailure("")

ShapeIdle == raw = NoRaw /\ payload = NoPayload

(***************************************************************************)
(* Final text of a run and the answer made of it.  A decoded JSON value is *)
(* a record: its kind, its text as written (strings and numbers), and its  *)
(* elements (arrays) or key/value members (objects).                       *)
(***************************************************************************)
\* the character U+0060, which a TLA+ string cannot hold
Backtick == "backtick"

JsonWhitespace == {" ", "\t", "\n", "\r"}

\* characters json rejects inside a string literal (strict mode)
ControlChars == {"\t", "\n", "\r"}

\* characters that may follow a backslash in a string literal (\uXXXX is not decoded here)
EscapeChars == {"\"", "\\", "/", "b", "f", "n", "r", "t"}

JValue(kind, txt, items) == [kind |-> kind, text |-> txt, items |-> items]

NoValue == JValue("none", <<>>, <<>>)

\* result of scanning one value: ok, the index after it, the value
ParseFail == [ok |-> FALSE, pos |-> 0, val |-> NoValue]

Parsed(v, p) == [ok |-> TRUE, pos |-> p, val |-> v]

Str_null == <<"n", "u", "l", "l">>

Str_true == <<"t", "r", "u", "e">>

Str_false == <<"f", "a", "l", "s", "e">>

Str_NaN == <<"N", "a", "N">>

Str_Infinity == <<"I", "n", "f", "i", "n", "i", "t", "y">>

Str_MinusInfinity == <<"-", "I", "n", "f", "i", "n", "i", "t", "y">>

Str_fence_json == <<Backtick, Backtick, Backtick, "j", "s", "o", "n">>

Str_fence == <<Backtick, Backtick, Backtick>>

Str_insight_summary == <<"i", "n", "s", "i", "g", "h", "t", "_", "s", "u", "m", "m", "a", "r", "y">>

Str_detailed_analysis == <<"d", "e", "t", "a", "i", "l", "e", "d", "_", "a", "n", "a", "l", "y", "s", "i", "s">>

Str_data_sources_used == <<"d", "a", "t", "a", "_", "s", "o", "u", "r", "c", "e", "s", "_", "u", "s", "e", "d">>

Str_confidence_score == <<"c", "o", "n", "f", "i", "d", "e", "n", "c", "e", "_", "s", "c", "o", "r", "e">>

Str_recommendations == <<"r", "e", "c", "o", "m", "m", "e", "n", "d", "a", "t", "i", "o", "n", "s">>

Str_unknown == <<"u", "n", "k", "n", "o", "w", "n">>

Str_half == <<"0", ".", "5">>

Str_42_records == <<"4", "2", " ", "r", "e", "c", "o", "r", "d", "s">>

Str_0_9 == <<"0", ".", "9">>

RECURSIVE StringEnd(_, _)
\* index of the quote that closes the string literal whose content starts at i, 0 when
\* the literal is unterminated or invalid
StringEnd(s, i) ==
    IF i > Len(s) THEN 0
    ELSE IF s[i] = "\"" THEN i
    ELSE IF s[i] \in ControlChars THEN 0
    ELSE IF s[i] = "\\"
         THEN IF i + 1 <= Len(s) /\ s[i + 1] \in EscapeChars THEN StringEnd(s, i + 2) ELSE 0
    ELSE StringEnd(s, i + 1)

\* index after the match of (-?(?:0|[1-9]\d*))(\.\d+)?([eE][-+]?\d+)? at i, 0 when it
\* does not match
NumberEnd(s, i) ==
    LET a == IF s[i] = "-" THEN i + 1 ELSE i
        b == IF a > Len(s) \/ ~IsDigit(s[a]) THEN 0
             ELSE IF s[a] = "0" THEN a + 1 ELSE SkipWhile(s, a, DigitSet)
        c == IF b # 0 /\ b + 1 <= Len(s) /\ s[b] = "." /\ IsDigit(s[b + 1])
             THEN SkipWhile(s, b + 1, DigitSet) ELSE b
        d == IF c # 0 /\ c <= Len(s) /\ s[c] \in {"e", "E"}
             THEN IF c + 1 <= Len(s) /\ s[c + 1] \in {"+", "-"} THEN c + 2 ELSE c + 1
             ELSE 0
    IN  IF d # 0 /\ d <= Len(s) /\ IsDigit(s[d]) THEN SkipWhile(s, d, DigitSet) ELSE c

RECURSIVE ParseValue(_, _)
RECURSIVE ParseMembers(_, _, _)
RECURSIVE ParseElements(_, _, _)

\* json.scanner's scan_once at index i
ParseValue(s, i) ==
    IF i > Len(s) THEN ParseFail
    ELSE IF s[i] = "\""
         THEN LET e == StringEnd(s, i + 1)
              IN  IF e = 0 THEN ParseFail
                  ELSE Parsed(JValue("string", SubSeq(s, i + 1, e - 1), <<>>), e + 1)
    ELSE IF s[i] = "{"
         THEN LET j == SkipWhile(s, i + 1, JsonWhitespace)
              IN  IF j <= Len(s) /\ s[j] = "}" THEN Parsed(JValue("object", <<>>, <<>>), j + 1)
                  ELSE ParseMembers(s, j, <<>>)
    ELSE IF s[i] = "["
         THEN LET j == SkipWhile(s, i + 1, JsonWhitespace)
              IN  IF j <= Len(s) /\ s[j] = "]" THEN Parsed(JValue("array", <<>>, <<>>), j + 1)
                  ELSE ParseElements(s, j, <<>>)
    ELSE IF MatchAt(s, Str_null, i) THEN Parsed(JValue("null", <<>>, <<>>), i + Len(Str_null))
    ELSE IF MatchAt(s, Str_true, i) THEN Parsed(JValue("true", <<>>, <<>>), i + Len(Str_true))
    ELSE IF MatchAt(s, Str_false, i) THEN Parsed(JValue("false", <<>>, <<>>), i + Len(Str_false))
    ELSE IF NumberEnd(s, i) # 0
         THEN Parsed(JValue("number", SubSeq(s, i, NumberEnd(s, i) - 1), <<>>), NumberEnd(s, i))
    ELSE IF MatchAt(s, Str_NaN, i) THEN Parsed(JValue("number", Str_NaN, <<>>), i + Len(Str_NaN))
    ELSE IF MatchAt(s, Str_Infinity, i)
         THEN Parsed(JValue("number", Str_Infinity, <<>>), i + Len(Str_Infinity))
    ELSE IF MatchAt(s, Str_MinusInfinity, i)
         THEN Parsed(JValue("number", Str_MinusInfinity, <<>>), i + Len(Str_MinusInfinity))
    ELSE ParseFail

\* json.decoder.JSONObject from the quote of a key at index i, with the members read so far
ParseMembers(s, i, acc) ==
    IF i > Len(s) \/ s[i] # "\"" THEN ParseFail
    ELSE LET ke == StringEnd(s, i + 1)
         IN  IF ke = 0 THEN ParseFail
             ELSE LET c == SkipWhile(s, ke + 1, JsonWhitespace)
                  IN  IF c > Len(s) \/ s[c] # ":" THEN ParseFail
                      ELSE \* the value is scanned once and named v
                           LET scanned == {ParseValue(s, SkipWhile(s, c + 1, JsonWhitespace))}
                           IN  CHOOSE r \in
                                 { IF ~v.ok THEN ParseFail
                                   ELSE LET n == SkipWhile(s, v.pos, JsonWhitespace)
                                            acc2 == Append(acc, [key |-> SubSeq(s, i + 1, ke - 1),
                                                                 val |-> v.val])
                                        IN  IF n > Len(s) THEN ParseFail
                                            ELSE IF s[n] = "}"
                                                 THEN Parsed(JValue("object", <<>>, acc2), n + 1)
                                            ELSE IF s[n] = ","
                                                 THEN ParseMembers(s, SkipWhile(s, n + 1, JsonWhitespace), acc2)
                                            ELSE ParseFail
                                   : v \in scanned } : TRUE

\* json.decoder.JSONArray from the first character of an element at index i
ParseElements(s, i, acc) ==
    LET scanned == {ParseValue(s, i)}
    IN  CHOOSE r \in
          { IF ~v.ok THEN ParseFail
            ELSE LET n == SkipWhile(s, v.pos, JsonWhitespace)
                     acc2 == Append(acc, v.val)
                 IN  IF n > Len(s) THEN ParseFail
                     ELSE IF s[n] = "]" THEN Parsed(JValue("array", <<>>, acc2), n + 1)
                     ELSE IF s[n] = ","
                          THEN ParseElements(s, SkipWhile(s, n + 1, JsonWhitespace), acc2)
                     ELSE ParseFail
            : v \in scanned } : TRUE

\* json.loads(s): ok is FALSE where it raises JSONDecodeError
json_loads(s) ==
    LET scanned == {ParseValue(s, SkipWhile(s, 1, JsonWhitespace))}
    IN  CHOOSE r \in
          { IF v.ok /\ SkipWhile(s, v.pos, JsonWhitespace) = Len(s) + 1 THEN v ELSE ParseFail
            : v \in scanned } : TRUE

\* s.find(p, start) as a 0-based index, -1 when p does not occur; start is 0-based
find(s, p, start) ==
    LET hits == {i \in (start + 1)..(Len(s) + 1) : MatchAt(s, p, i)}
    IN  IF hits = {} THEN -1 ELSE (CHOOSE i \in hits : \A j \in hits : i <= j) - 1

\* s.rfind(p) as a 0-based index, -1 when p does not occur
rfind(s, p) ==
    LET hits == {i \in 1..(Len(s) + 1) : MatchAt(s, p, i)}
    IN  IF hits = {} THEN -1 ELSE (CHOOSE i \in hits : \A j \in hits : j <= i) - 1

\* s[a:b] for 0-based a >= 0 and any b: a negative b counts from the end
Slice(s, a, b) ==
    LET stop == IF b < 0 THEN (IF Len(s) + b < 0 THEN 0 ELSE Len(s) + b)
                ELSE IF b > Len(s) THEN Len(s) ELSE b
    IN  IF a >= stop THEN <<>> ELSE SubSeq(s, a + 1, stop)

\* characters of the final text kept as the summary of the fallback answer
SummaryChars == 200

\* the dict built in `except json.JSONDecodeError`
fallback_answer(final_response) ==
    JValue("object", <<>>,
        << [key |-> Str_insight_summary,
            val |-> JValue("string", Slice(final_response, 0, SummaryChars), <<>>)],
           [key |-> Str_detailed_analysis, val |-> JValue("string", final_response, <<>>)],
           [key |-> Str_data_sources_used,
            val |-> JValue("array", <<>>, <<JValue("string", Str_unknown, <<>>)>>)],
           [key |-> Str_confidence_score, val |-> JValue("number", Str_half, <<>>)],
           [key |-> Str_recommendations, val |-> JValue("array", <<>>, <<>>)] >>)

\* the text handed to json.loads
json_str_of(final_response) ==
    IF contains(final_response, Str_fence_json)
    THEN LET json_start == find(final_response, Str_fence_json, 0) + Len(Str_fence_json)
             json_end == find(final_response, Str_fence, json_start)
         IN  strip(Slice(final_response, json_start, json_end))
    ELSE IF contains(final_response, <<"{">>) /\ contains(final_response, <<"}">>)
    THEN LET json_start == find(final_response, <<"{">>, 0)
             json_end == rfind(final_response, <<"}">>) + 1
         IN  Slice(final_response, json_start, json_end)
    ELSE final_response

\* the parsing without json.loads: the fallback dict for every text
parse_final_response_always_fallback(final_response) == fallback_answer(final_response)

\* analyze_city's parsing of the final text: insight_data
parse_final_response(final_response) ==
    LET decoded == {json_loads(json_str_of(final_response))}
    IN  CHOOSE a \in { IF v.ok THEN v.val ELSE fallback_answer(final_response) : v \in decoded } : TRUE

\* MindsDBAgent.run returns the text itself
raw_answer(final_response) == JValue("text", final_response, <<>>)

\* the answer the system prompt asks for
Text_record ==
    <<"{", "\"", "i", "n", "s", "i", "g", "h", "t", "_", "s", "u", "m", "m", "a", "r", "y",
      "\"", ":", "\"", "4", "2", " ", "r", "e", "c", "o", "r", "d", "s", "\"", ",", "\"",
      "d", "e", "t", "a", "i", "l", "e", "d", "_", "a", "n", "a", "l", "y", "s", "i", "s",
      "\"", ":", "\"", ".", ".", ".", "\"", ",", "\"", "d", "a", "t", "a", "_", "s", "o",
      "u", "r", "c", "e", "s", "_", "u", "s", "e", "d", "\"", ":", "[", "\"", "t", "\"",
      "]", ",", "\"", "c", "o", "n", "f", "i", "d", "e", "n", "c", "e", "_", "s", "c", "o",
      "r", "e", "\"", ":", "0", ".", "9", ",", "\"", "r", "e", "c", "o", "m", "m", "e",
      "n", "d", "a", "t", "i", "o", "n", "s", "\"", ":", "[", "]", "}">>

\* prose without any JSON
Text_prose ==
    <<"T", "h", "e", " ", "c", "i", "t", "y", " ", "h", "a", "s", " ", "4", "2", " ", "r", "e",
      "c", "o", "r", "d", "s", " ", "i", "n", " ", "t", "o", "t", "a", "l", ".">>

\* a record cut before its end
Text_open_record ==
    <<"{", "\"", "i", "n", "s", "i", "g", "h", "t", "_", "s", "u", "m", "m", "a", "r", "y",
      "\"", ":", " ", "\"", "4", "2", " ", "r", "e", "c", "o", "r", "d", "s", "\"", ",", " ">>

\* JSON that is not a record
Text_number == <<"4", "2">>

\* a record with other fields
Text_other_record ==
    <<"{", "\"", "s", "u", "m", "m", "a", "r", "y", "\"", ":", " ", "\"", "4", "2", " ", "r",
      "e", "c", "o", "r", "d", "s", "\"", "}">>

Text_list ==
    <<"[", "\"", "4", "2", " ", "r", "e", "c", "o", "r", "d", "s", "\"", ",", " ", "0", ".",
      "9", "]">>

\* prose longer than the summary of the fallback answer
Text_long ==
    LET p == Text_prose \o <<" ">>
    IN  p \o p \o p \o p \o p \o p \o p

Lead_prose ==
    <<"H", "e", "r", "e", " ", "i", "s", " ", "t", "h", "e", " ", "a", "n", "a", "l", "y", "s",
      "i", "s", ":", "\n">>

Lead_fence == <<Backtick, Backtick, Backtick, "j", "s", "o", "n", "\n">>

Lead_prose_fence ==
    <<"R", "e", "s", "u", "l", "t", " ", "{", "b", "e", "l", "o", "w", "}", ":", " ", Backtick,
      Backtick, Backtick, "j", "s", "o", "n", " ">>

Trail_fence == <<"\n", Backtick, Backtick, Backtick>>

Trail_brace == <<" ", "}">>

Trail_fence_prose == <<"\n", Backtick, Backtick, Backtick, "\n", "D", "o", "n", "e", ".">>

TextLeads == {<<>>, Lead_prose, Lead_fence, Lead_prose_fence}

TextBodies == {<<>>, Text_record, Text_prose, Text_open_record, Text_number, Text_other_record,
               Text_list, <<"{", "}">>, <<"n", "u", "l", "l">>}

TextTrails == {<<>>, Trail_fence, Trail_brace, Trail_fence_prose}

\* final texts a model may send
FinalTexts ==
    {lead \o body \o trail : lead \in TextLeads, body \in TextBodies, trail \in TextTrails}
    \cup {Text_long}

parseVars == <<text, answer>>

ParseIdle == text = <<>> /\ answer = NoValue

pairVars == <<heap, runs>>

PairIdle == heap = <<>> /\ runs = <<>>

(***************************************************************************)
(* The location parser of the insights microservice.                       *)
(***************************************************************************)
\* the list `cities`, in its order
cities ==
    << <<"b", "r", "i", "s", "t", "o", "l">>,
       <<"m", "a", "n", "c", "h", "e", "s", "t", "e", "r">>,
       <<"b", "i", "r", "m", "i", "n", "g", "h", "a", "m">>, <<"l", "e", "e", "d", "s">>,
       <<"e", "d", "i", "n", "b", "u", "r", "g", "h">>, <<"l", "o", "n", "d", "o", "n">>,
       <<"b", "o", "s", "t", "o", "n">>, <<"d", "u", "b", "a", "i">>,
       <<"s", "i", "n", "g", "a", "p", "o", "r", "e">>, <<"t", "o", "k", "y", "o">>,
       <<"g", "l", "a", "s", "g", "o", "w">>, <<"l", "i", "v", "e", "r", "p", "o", "o", "l">>,
       <<"n", "e", "w", "c", "a", "s", "t", "l", "e">>,
       <<"s", "h", "e", "f", "f", "i", "e", "l", "d">>,
       <<"n", "o", "t", "t", "i", "n", "g", "h", "a", "m">> >>

\* the dict `country_keywords`, in its insertion order
country_keywords ==
    << [code |-> "GB", keywords |-> << <<"u", "k">>, <<"b", "r", "i", "t", "a", "i", "n">>,
            <<"e", "n", "g", "l", "a", "n", "d">>, <<"s", "c", "o", "t", "l", "a", "n", "d">>,
            <<"w", "a", "l", "e", "s">>,
            <<"u", "n", "i", "t", "e", "d", " ", "k", "i", "n", "g", "d", "o", "m">> >>],
       [code |-> "US", keywords |-> << <<"u", "s", "a">>, <<"a", "m", "e", "r", "i", "c", "a">>,
            <<"u", "n", "i", "t", "e", "d", " ", "s", "t", "a", "t", "e", "s">> >>],
       [code |-> "AE", keywords |-> << <<"u", "a", "e">>, <<"d", "u", "b", "a", "i">>,
            <<"e", "m", "i", "r", "a", "t", "e", "s">> >>],
       [code |-> "SG", keywords |-> << <<"s", "i", "n", "g", "a", "p", "o", "r", "e">> >>],
       [code |-> "JP", keywords |-> << <<"j", "a", "p", "a", "n">> >>] >>

\* the value None of an Optional[str], and a str
None == [some |-> FALSE, str |-> <<>>]

Some(s) == [some |-> TRUE, str |-> s]

\* str.capitalize(): first character upper-cased, the others lower-cased
capitalize(s) == [i \in 1..Len(s) |-> IF i = 1 THEN UpperChar(s[i]) ELSE LowerChar(s[i])]

\* least element of a non-empty set of integers
Least(S) == CHOOSE i \in S : \A j \in S : i <= j

\* the city search with the city that comes first in the query instead of in the list
find_city_first_in_query(query_lower) ==
    LET at == [i \in 1..Len(cities) |-> find(query_lower, cities[i], 0)]
        hits == {i \in 1..Len(cities) : at[i] >= 0}
    IN  IF hits = {} THEN None
        ELSE Some(capitalize(cities[CHOOSE i \in hits : \A j \in hits : at[i] <= at[j]]))

\* "Find city": the loop over `cities` with its break
find_city(query_lower) ==
    LET hits == {i \in 1..Len(cities) : contains(query_lower, cities[i])}
    IN  IF hits = {} THEN None ELSE Some(capitalize(cities[Least(hits)]))

\* "Find country code (default to GB)": the loop over the dict with its break
find_country_code(query_lower) ==
    LET hits == {g \in 1..Len(country_keywords) :
                    \E k \in 1..Len(country_keywords[g].keywords) :
                        contains(query_lower, country_keywords[g].keywords[k])}
    IN  IF hits = {} THEN "GB" ELSE country_keywords[Least(hits)].code

\* parse_query_for_location(query): (city_name, country_code)
parse_query_for_location(q) ==
    [city_name |-> find_city(lower(q)), country_code |-> find_country_code(lower(q))]

Ask_show == <<"S", "h", "o", "w", " ", "m", "e", " ">>

Ask_tell == <<"T", "e", "l", "l", " ", "m", "e", " ", "a", "b", "o", "u", "t", " ">>

Place_Bristol == <<"B", "r", "i", "s", "t", "o", "l">>

Place_LONDON == <<"L", "O", "N", "D", "O", "N">>

Place_two == <<"L", "o", "n", "d", "o", "n", " ", "a", "n", "d", " ", "B", "r", "i", "s", "t", "o", "l">>

Place_Dubai == <<"D", "u", "b", "a", "i">>

Place_Singapore == <<"S", "i", "n", "g", "a", "p", "o", "r", "e">>

Place_tokyo == <<"t", "o", "k", "y", "o">>

Place_Paris == <<"P", "a", "r", "i", "s">>

Place_cities == <<"c", "i", "t", "i", "e", "s">>

In_UK == <<" ", "i", "n", " ", "t", "h", "e", " ", "U", "K">>

In_USA == <<",", " ", "U", "S", "A">>

In_Japan == <<" ", "i", "n", " ", "J", "a", "p", "a", "n", "?">>

In_both == <<" ", "i", "n", " ", "A", "m", "e", "r", "i", "c", "a", " ", "a", "n", "d", " ", "B", "r", "i", "t", "a", "i", "n">>

QueryLeads == {<<>>, Ask_show, Ask_tell}

QueryPlaces == {<<>>, Place_Bristol, Place_LONDON, Place_two, Place_Dubai, Place_Singapore,
                Place_tokyo, Place_Paris, Place_cities}

QueryTails == {<<>>, In_UK, In_USA, In_Japan, In_both}

\* queries a client may send
LocationQueries ==
    {lead \o place \o tail : lead \in QueryLeads, place \in QueryPlaces, tail \in QueryTails}

NoLocation == [city_name |-> None, country_code |-> ""]

locVars == <<query, location>>

LocIdle == query = <<>> /\ location = NoLocation

(***************************************************************************)
(* Side effects: the connection pool of a PostgreSQL tool object, the      *)
(* statements and alert calls of analyze_and_store, and the files written  *)
(* by the export tool.                                                     *)
(***************************************************************************)
\* locals of one call of analyze_and_store, execute_postgres_direct_tool or
\* execute_postgres_tool
NoJob ==
    [entry |-> "none", create_alert |-> FALSE, insight |-> "none", analysis |-> "none",
     store |-> "none", alert |-> "none", success |-> FALSE, opened |-> FALSE]

\* connect() / initialize(): create_pool succeeds or fails when there is no pool yet
PostgresDirectTool_connect(p) == IF p = "None" THEN {"open", "None"} ELSE {p}

\* variant of close() that closes the pool without resetting self.pool
PostgresDirectTool_close_keeps_pool(p) == p

\* close(): if self.pool: await self.pool.close(); self.pool = None
PostgresDirectTool_close(p) == "None"

\* what analyze_city hands to analyze_and_store: a record whose fields have the types
\* the prompt asks for, a record whose recommendations are not strings, a decoded
\* value that is not a record
InsightKinds == {"record", "record_other_recommendations", "not_a_record"}

fxVars == <<pool, effects, job, files, exports, clock>>

FxIdle ==
    /\ pool = "None" /\ effects = <<>> /\ job = NoJob
    /\ files = {} /\ exports = <<>> /\ clock = 0

(***************************************************************************)
(* SpecTool: one tool function applied to one SQL text.                    *)
(***************************************************************************)
NoResponse == [finish |-> "none", ids |-> <<>>, text |-> FALSE]

AgentIdle ==
    /\ messages = <<>> /\ iteration = 0 /\ retry = 0 /\ slept = <<>>
    /\ response = NoResponse /\ tool_results = <<>>
    /\ calls = 0 /\ queries = 0 /\ outcome = "none" /\ overflows = 0

agentVars == <<agent, messages, iteration, retry, slept, response, tool_results,
               calls, queries, outcome, overflows>>

InitTool ==
    /\ agent = "tool" /\ pc = "call"
    /\ sql \in SqlTexts /\ allow_write \in BOOLEAN
    /\ operation = "" /\ fn = "none" /\ result = NoResult
    /\ AgentIdle /\ ShapeIdle /\ ParseIdle /\ PairIdle /\ LocIdle /\ FxIdle

MindsdbOperations == {"sample", "count", "statistics", "custom_query", "alter_table", "drop_table"}

PostgresDirectOperations == {"zebra_crossings", "custom_query", "vacuum"}

SampleLimits == {5, 100}

\* default of execute_mindsdb_tool's limit parameter
DefaultLimit == 10

CallMindsDBQuery ==
    /\ agent = "tool" /\ pc = "call"
    /\ result' \in MindsDBTool_query(sql, allow_write)
    /\ fn' = "MindsDBTool.query" /\ pc' = "returned"
    /\ UNCHANGED <<agentVars, sql, allow_write, operation>>
    /\ UNCHANGED shapeVars
    /\ UNCHANGED <<pairVars, locVars, fxVars>>
    /\ UNCHANGED parseVars

CallExecuteMindsdbTool ==
    /\ agent = "tool" /\ pc = "call"
    /\ \E op \in MindsdbOperations :
       \E limit \in IF op = "sample" THEN SampleLimits ELSE {DefaultLimit} :
          /\ operation' = op
          /\ result' \in execute_mindsdb_tool(op, limit, sql, allow_write)
    /\ fn' = "execute_mindsdb_tool" /\ pc' = "returned"
    /\ UNCHANGED <<agentVars, sql, allow_write>>
    /\ UNCHANGED shapeVars
    /\ UNCHANGED <<pairVars, locVars, fxVars>>
    /\ UNCHANGED parseVars

CallCityExecuteTool ==
    /\ agent = "tool" /\ pc = "call"
    /\ result' \in CityInsightsAnalyzer_execute_tool("query_database", sql)
    /\ fn' = "CityInsightsAnalyzer._execute_tool" /\ pc' = "returned"
    /\ UNCHANGED <<agentVars, sql, allow_write, operation>>
    /\ UNCHANGED shapeVars
    /\ UNCHANGED <<pairVars, locVars, fxVars>>
    /\ UNCHANGED parseVars

CallGeminiExecuteTool ==
    /\ agent = "tool" /\ pc = "call"
    /\ result' \in CityInsightsAnalyzerGemini_execute_tool("query_database", sql)
    /\ fn' = "CityInsightsAnalyzerGemini._execute_tool" /\ pc' = "returned"
    /\ UNCHANGED <<agentVars, sql, allow_write, operation>>
    /\ UNCHANGED shapeVars
    /\ UNCHANGED <<pairVars, locVars, fxVars>>
    /\ UNCHANGED parseVars

CallPostgresDirect ==
    /\ agent = "tool" /\ pc = "call"
    /\ \E op \in PostgresDirectOperations :
          /\ operation' = op
          /\ result' \in execute_postgres_direct_tool(op, sql)
    /\ fn' = "execute_postgres_direct_tool" /\ pc' = "returned"
    /\ UNCHANGED <<agentVars, sql, allow_write>>
    /\ UNCHANGED shapeVars
    /\ UNCHANGED <<pairVars, locVars, fxVars>>
    /\ UNCHANGED parseVars

NextTool ==
    \/ CallMindsDBQuery
    \/ CallExecuteMindsdbTool
    \/ CallCityExecuteTool
    \/ CallGeminiExecuteTool
    \/ CallPostgresDirect

SpecTool == InitTool /\ [][NextTool]_vars

(***************************************************************************)
(* The orchestration loops.                                                *)
(*                                                                         *)
(* A message keeps its role, a tag for its content, the call ids it        *)
(* requests (assistant turns) and the call ids it answers (tool results).  *)
(* Arguments and payloads of the tool calls are not kept in the messages:  *)
(* the latest request and its result are in sql, allow_write, operation,   *)
(* fn and result.                                                          *)
(***************************************************************************)
\* largest number of tool calls in one assistant turn
MaxToolsPerTurn == 2

\* numbers of user/assistant exchanges in the conversation_history given to run
HistoryPairs == {0, 2}

\* mindsdb_agent.py: max_retries = 5
max_retries == 5

\* mindsdb_agent.py: wait_time = (2 ** retry) * 3
BackoffBase == 3

\* mindsdb_agent.py: if len(messages) > 12
PruneThreshold == 12

\* mindsdb_agent.py: remaining = messages[-10:]
PruneKeep == 10

\* city_insights_analyzer.py: max_iterations = 12
CityMaxIterations == 12

\* city_insights_analyzer.py: if len(messages) > 6: messages = messages[-6:]
CityKeep == 6

\* city_insights_analyzer.py: messages = messages[-2:]
CityOverflowKeep == 2

\* city_insights_analyzer.py: await asyncio.sleep(5)
CityRateLimitSleep == 5

\* city_insights_analyzer_gemini.py: max_iterations = 8
GeminiMaxIterations == 8

\* city_insights_analyzer_gemini.py: await asyncio.sleep(2)
GeminiErrorSleep == 2

\* the query budget announced to the model: "If you make 8 queries, I will
\* force-terminate your analysis"
QueriesMax == 8

UserMsg(content) == [role |-> "user", content |-> content, calls |-> <<>>, results |-> <<>>]

AssistantMsg(content, ids) == [role |-> "assistant", content |-> content, calls |-> ids, results |-> <<>>]

\* MindsDBAgent.run: {"role": "tool", "tool_call_id": ..., "name": ..., "content": ...}
ToolMsg(id) == [role |-> "tool", content |-> "result", calls |-> <<>>, results |-> <<id>>]

\* analyze_city: {"role": "user", "content": tool_results}
ToolResultsMsg(ids) == [role |-> "user", content |-> "tool_results", calls |-> <<>>, results |-> ids]

RECURSIVE History(_)
\* a conversation_history of k exchanges, as interactive_mode builds it
History(k) ==
    IF k = 0 THEN <<>>
    ELSE History(k - 1) \o <<UserMsg("history"), AssistantMsg("history", <<>>)>>

\* Python's m[-n:]
LastN(m, n) == IF n >= Len(m) THEN m ELSE SubSeq(m, Len(m) - n + 1, Len(m))

UsedIds(m) == UNION {Range(m[i].calls) \cup Range(m[i].results) : i \in 1..Len(m)}

RECURSIVE FreshFrom(_, _, _)
FreshFrom(used, n, k) ==
    IF n = 0 THEN <<>>
    ELSE IF k \in used THEN FreshFrom(used, n, k + 1)
    ELSE <<k>> \o FreshFrom(used, n - 1, k + 1)

\* the call ids of a new assistant turn: n ids that occur nowhere in the conversation
\* the provider was handed (ids are unique within a conversation)
FreshIds(m, n) == FreshFrom(UsedIds(m), n, 1)

RECURSIVE IdSeqUpTo(_, _)
IdSeqUpTo(m, n) ==
    IF n = 0 THEN <<>> ELSE IdSeqUpTo(m, n - 1) \o m[n].calls \o m[n].results

\* the call ids of a conversation in order of appearance
IdSeq(m) == IdSeqUpTo(m, Len(m))

\* the rank of each id of ids in order of first appearance
RankOf(ids) ==
    [id \in Range(ids) |->
        Cardinality({ids[j] : j \in 1..(CHOOSE k \in 1..Len(ids) :
                                            ids[k] = id /\ \A j \in 1..(k - 1) : ids[j] # id)})]

\* Call ids are opaque tokens of the provider: the model keeps a conversation up to
\* renaming of its ids, numbering them 1, 2, ... in order of first appearance.
Renumber(m) ==
    CHOOSE r \in { [i \in 1..Len(c) |->
                      [c[i] EXCEPT !.calls = [k \in 1..Len(c[i].calls) |-> rank[c[i].calls[k]]],
                                   !.results = [k \in 1..Len(c[i].results) |-> rank[c[i].results[k]]]]] :
                   c \in {m}, rank \in {RankOf(ids) : ids \in {IdSeq(m)}} } : TRUE

\* the observers count up to one more than the largest budget they are compared with
CountCalls(n) == IF n >= CityMaxIterations + 1 THEN CityMaxIterations + 1 ELSE n

CountQueries(n) == IF n >= QueriesMax + 1 THEN QueriesMax + 1 ELSE n

\* the overflow observer stops counting here
MaxOverflowsCounted == 2

CountOverflows(n) == IF n >= MaxOverflowsCounted THEN MaxOverflowsCounted ELSE n

\* variant of wait_time whose exponent starts at one
wait_time_from_one(r) == (2 ^ (r + 1)) * BackoffBase

\* MindsDBAgent.run: wait_time = (2 ** retry) * 3
wait_time(r) == (2 ^ r) * BackoffBase

\* variant of prune_messages that slices messages[:10] instead of messages[-10:]
prune_messages_head(m) ==
    IF Len(m) > PruneThreshold THEN SubSeq(m, 1, PruneKeep) ELSE m

\* variant of prune_messages whose tail slice is as long as the threshold
prune_messages_threshold_tail(m) ==
    IF Len(m) > PruneThreshold THEN <<m[1]>> \o LastN(m, PruneThreshold) ELSE m

\* MindsDBAgent.run, "Prune conversation to prevent context bloat"
prune_messages(m) ==
    IF Len(m) > PruneThreshold
    THEN LET remaining == LastN(m, PruneKeep)
         IN <<m[1]>> \o (IF remaining[1].role = "user" THEN LastN(m, PruneKeep - 1) ELSE remaining)
    ELSE m

\* analyze_city: if len(messages) > 6: messages = messages[-6:]
city_prune(m) == IF Len(m) > CityKeep THEN LastN(m, CityKeep) ELSE m

\* analyze_city on context overflow: messages = messages[-2:]
city_overflow_prune(m) == LastN(m, CityOverflowKeep)

\* variant of ToolMsgs that answers every call with the id of the first one
ToolMsgs_first_id(ids) == [k \in 1..Len(ids) |-> ToolMsg(ids[1])]

\* the tool messages of one turn: one per answered call id, in order
ToolMsgs(ids) == [k \in 1..Len(ids) |-> ToolMsg(ids[k])]

toolVars == <<sql, allow_write, operation, fn, result>>

ToolVarsIdle ==
    /\ sql = <<>> /\ allow_write = FALSE /\ operation = "" /\ fn = "none" /\ result = NoResult

ResetToolVars ==
    /\ sql' = <<>> /\ allow_write' = FALSE /\ operation' = "" /\ fn' = "none" /\ result' = NoResult

Init ==
    /\ agent \in {"mindsdb", "city", "gemini"}
    /\ CASE agent = "mindsdb" ->
              /\ \E k \in HistoryPairs : messages = History(k) \o <<UserMsg("user_message")>>
              /\ pc = "complete"
         [] agent = "city" -> messages = <<UserMsg("user_message")>> /\ pc = "loop"
         [] OTHER -> messages = <<>> /\ pc = "initial"
    /\ iteration = 0 /\ retry = 0 /\ slept = <<>>
    /\ response = NoResponse /\ tool_results = <<>>
    /\ calls = 0 /\ queries = 0 /\ outcome = "none" /\ overflows = 0
    /\ ToolVarsIdle /\ ShapeIdle /\ ParseIdle /\ PairIdle /\ LocIdle /\ FxIdle

\* SQL texts the model sends in the runs: a COUNT statement without LIMIT and a
\* statement with a LIMIT
SqlCountNoLimit ==
    <<"S", "E", "L", "E", "C", "T", " ", "C", "O", "U", "N", "T", "(", "*", ")", " ", "F", "R", "O", "M", " ", "t">>

SqlWithLimit ==
    <<"S", "E", "L", "E", "C", "T", " ", "i", "d", " ", "F", "R", "O", "M", " ", "t", " ", "L", "I", "M", "I", "T", " ", "5">>

AgentSqlTexts == {SqlCountNoLimit, SqlWithLimit}

Request(name, op, s) == [name |-> name, operation |-> op, sql |-> s, allow_write |-> FALSE]

\* tool requests the model makes of MindsDBAgent
MindsDBRequests ==
    {Request("query_mindsdb", "custom_query", SqlCountNoLimit)}
    \cup {Request("query_postgres_direct", "custom_query", s) : s \in AgentSqlTexts}
    \cup {Request("export_query_results", "", <<>>), Request("unknown_tool", "", <<>>)}

\* tool requests the model makes of the two city analyzers
CityRequests ==
    {Request("query_database", "", s) : s \in AgentSqlTexts}
    \cup {Request("unknown_tool", "", <<>>)}

\* the tool whose calls the analyzers' prompts limit ("You have MAXIMUM 8 queries
\* before I force-terminate"); MindsDBAgent announces no query budget and does not
\* offer this tool
BudgetedTools == {"query_database"}

\* The loops serialize a tool result into the conversation without reading its error
\* text: the runs keep of a failed execution only that it failed.
AsAttached(r) == IF r.executed /\ ~r.success THEN [r EXCEPT !.error = "ExecutorError"] ELSE r

\* MindsDBAgent.run, "Execute appropriate tool": the values the tool call can yield
MindsDBAgent_execute(req) ==
    CASE req.name = "query_mindsdb" ->
            execute_mindsdb_tool(req.operation, DefaultLimit, req.sql, req.allow_write)
      [] req.name = "query_postgres_direct" ->
            execute_postgres_direct_tool(req.operation, req.sql)
      [] req.name = "export_query_results" -> execute_export_tool
      [] OTHER -> {Rejected("UnknownTool")}

(***************************************************************************)
(* MindsDBAgent.run                                                        *)
(***************************************************************************)
\* final texts of the runs: the record asked for, prose, and JSON that is not a record
RunFinalTexts == {Text_record, Text_prose, Text_number}

\* insight_data of analyze_city for each of these texts
insight_data == [final_response \in RunFinalTexts |-> parse_final_response(final_response)]

\* completion(...) returns a response; the loop branches on it
MindsDBCompletionReturns ==
    /\ agent = "mindsdb" /\ pc = "complete"
    /\ calls' = CountCalls(calls + 1)
    /\ \E finish \in {"tool_calls", "stop"}, n \in 0..MaxToolsPerTurn :
          /\ response' = [finish |-> finish, ids |-> FreshIds(messages, n), text |-> TRUE]
          /\ IF finish = "tool_calls" /\ n > 0
             THEN \* retry is not read again before the next turn resets it
                  /\ pc' = "dispatch" /\ outcome' = outcome /\ retry' = 0 /\ slept' = <<>>
                  /\ UNCHANGED parseVars
             ELSE \* final_response = response_message.content or ""; return final_response
                  /\ pc' = "done" /\ outcome' = "final" /\ UNCHANGED <<retry, slept>>
                  /\ \E final_response \in RunFinalTexts :
                        text' = final_response /\ answer' = raw_answer(final_response)
    /\ tool_results' = <<>>
    /\ UNCHANGED <<agent, messages, iteration, queries, toolVars>>
    /\ UNCHANGED overflows
    /\ UNCHANGED shapeVars
    /\ UNCHANGED <<pairVars, locVars, fxVars>>

\* variant of MindsDBRateLimited that sleeps and retries after the last attempt too
MindsDBRateLimited_retries_on ==
    /\ agent = "mindsdb" /\ pc = "complete"
    /\ calls' = CountCalls(calls + 1)
    /\ slept' = Append(slept, wait_time(retry))
    /\ retry' = retry + 1
    /\ UNCHANGED <<pc, outcome>>
    /\ UNCHANGED <<agent, messages, iteration, response, tool_results, queries, toolVars>>
    /\ UNCHANGED overflows
    /\ UNCHANGED shapeVars
    /\ UNCHANGED <<pairVars, locVars, fxVars>>
    /\ UNCHANGED parseVars

\* completion(...) raises an error whose text holds 'rate' or 'limit'
MindsDBRateLimited ==
    /\ agent = "mindsdb" /\ pc = "complete"
    /\ calls' = CountCalls(calls + 1)
    /\ IF retry < max_retries - 1
       THEN /\ slept' = Append(slept, wait_time(retry))
            /\ retry' = retry + 1
            /\ UNCHANGED <<pc, outcome>>
       ELSE /\ pc' = "raised" /\ outcome' = "rate_limit_error"
            /\ UNCHANGED <<retry, slept>>
    /\ UNCHANGED <<agent, messages, iteration, response, tool_results, queries, toolVars>>
    /\ UNCHANGED overflows
    /\ UNCHANGED shapeVars
    /\ UNCHANGED <<pairVars, locVars, fxVars>>
    /\ UNCHANGED parseVars

\* completion(...) raises any other error: re-raised at once
MindsDBCompletionFails ==
    /\ agent = "mindsdb" /\ pc = "complete"
    /\ calls' = CountCalls(calls + 1)
    /\ pc' = "raised" /\ outcome' = "completion_error"
    /\ UNCHANGED <<agent, messages, iteration, retry, slept, response, tool_results, queries, toolVars>>
    /\ UNCHANGED overflows
    /\ UNCHANGED shapeVars
    /\ UNCHANGED <<pairVars, locVars, fxVars>>
    /\ UNCHANGED parseVars

\* variant of MindsDBDispatch in which a result that was not executed ends the run
MindsDBDispatch_rejection_raises ==
    /\ agent = "mindsdb" /\ pc = "dispatch" /\ Len(tool_results) < Len(response.ids)
    /\ \E req \in MindsDBRequests :
          /\ result' \in {AsAttached(r) : r \in MindsDBAgent_execute(req)}
          /\ fn' = req.name /\ operation' = req.operation
          /\ sql' = req.sql /\ allow_write' = req.allow_write
          /\ queries' = IF req.name \in BudgetedTools THEN CountQueries(queries + 1) ELSE queries
    /\ IF result'.executed
       THEN /\ tool_results' = Append(tool_results, response.ids[Len(tool_results) + 1])
            /\ UNCHANGED <<pc, outcome>>
       ELSE /\ pc' = "raised" /\ outcome' = "tool_error"
            /\ UNCHANGED tool_results
    /\ UNCHANGED <<agent, messages, iteration, retry, slept, response, calls>>
    /\ UNCHANGED overflows
    /\ UNCHANGED shapeVars
    /\ UNCHANGED <<pairVars, locVars, fxVars>>
    /\ UNCHANGED parseVars

\* one pass of `for tool_call in tool_calls`
MindsDBDispatch ==
    /\ agent = "mindsdb" /\ pc = "dispatch" /\ Len(tool_results) < Len(response.ids)
    /\ \E req \in MindsDBRequests :
          /\ result' \in {AsAttached(r) : r \in MindsDBAgent_execute(req)}
          /\ fn' = req.name /\ operation' = req.operation
          /\ sql' = req.sql /\ allow_write' = req.allow_write
          /\ queries' = IF req.name \in BudgetedTools THEN CountQueries(queries + 1) ELSE queries
    /\ tool_results' = Append(tool_results, response.ids[Len(tool_results) + 1])
    /\ UNCHANGED <<agent, pc, messages, iteration, retry, slept, response, calls, outcome>>
    /\ UNCHANGED overflows
    /\ UNCHANGED shapeVars
    /\ UNCHANGED <<pairVars, locVars, fxVars>>
    /\ UNCHANGED parseVars

\* json.loads of the arguments raises, whatever the tool's name is (the arguments are
\* decoded before the branch on the name), or the call with **arguments raises:
\* nothing in run catches it
MindsDBDispatchRaises ==
    /\ agent = "mindsdb" /\ pc = "dispatch" /\ Len(tool_results) < Len(response.ids)
    /\ \E req \in MindsDBRequests : fn' = req.name
    /\ result' = NoResult
    /\ pc' = "raised" /\ outcome' = "tool_error"
    /\ UNCHANGED <<agent, messages, iteration, retry, slept, response, tool_results,
                   calls, queries, sql, allow_write, operation>>
    /\ UNCHANGED overflows
    /\ UNCHANGED shapeVars
    /\ UNCHANGED <<pairVars, locVars, fxVars>>
    /\ UNCHANGED parseVars

\* after the for loop: append the assistant message and the tool results, prune
MindsDBAppend ==
    /\ agent = "mindsdb" /\ pc = "dispatch" /\ Len(tool_results) = Len(response.ids)
    /\ messages' = Renumber(prune_messages(messages \o <<AssistantMsg("text", response.ids)>>
                                                    \o ToolMsgs(tool_results)))
    /\ pc' = "complete"
    /\ response' = NoResponse /\ tool_results' = <<>>
    /\ ResetToolVars
    /\ UNCHANGED <<agent, iteration, retry, slept, calls, queries, outcome>>
    /\ UNCHANGED overflows
    /\ UNCHANGED shapeVars
    /\ UNCHANGED <<pairVars, locVars, fxVars>>
    /\ UNCHANGED parseVars

(***************************************************************************)
(* CityInsightsAnalyzer.analyze_city.  One pass of the while loop up to    *)
(* the completion call is one step: the iteration count, the prune and     *)
(* the call; the provider's answer selects the action.                     *)
(***************************************************************************)
CityLoopHead == agent = "city" /\ pc = "loop" /\ iteration < CityMaxIterations

\* messages.create returns a response
CityCompletionReturns ==
    /\ CityLoopHead
    /\ iteration' = iteration + 1
    /\ messages' = Renumber(city_prune(messages))
    /\ calls' = CountCalls(calls + 1)
    /\ \E stop_reason \in {"tool_use", "end_turn"}, n \in 0..MaxToolsPerTurn :
          /\ response' = [finish |-> stop_reason, ids |-> FreshIds(Renumber(city_prune(messages)), n), text |-> TRUE]
          /\ IF stop_reason = "tool_use"
             THEN pc' = "dispatch" /\ outcome' = outcome /\ UNCHANGED parseVars
             ELSE /\ pc' = "done" /\ outcome' = "final"
                  /\ \E final_response \in RunFinalTexts :
                        text' = final_response /\ answer' = insight_data[final_response]
    /\ tool_results' = <<>> /\ slept' = <<>>
    /\ UNCHANGED <<agent, retry, queries, toolVars>>
    /\ overflows' = 0
    /\ UNCHANGED shapeVars
    /\ UNCHANGED <<pairVars, locVars, fxVars>>

\* messages.create raises RateLimitError: sleep 5 s, continue
CityRateLimited ==
    /\ CityLoopHead
    /\ iteration' = iteration + 1
    /\ messages' = Renumber(city_prune(messages))
    /\ calls' = CountCalls(calls + 1)
    /\ slept' = <<CityRateLimitSleep>>
    /\ UNCHANGED <<agent, pc, retry, response, tool_results, queries, outcome, toolVars>>
    /\ UNCHANGED overflows
    /\ UNCHANGED shapeVars
    /\ UNCHANGED <<pairVars, locVars, fxVars>>
    /\ UNCHANGED parseVars

\* messages.create raises an error whose text holds "too long": keep the last two
\* messages, continue
CityContextOverflow ==
    /\ CityLoopHead
    /\ iteration' = iteration + 1
    /\ overflows' = CountOverflows(overflows + 1)
    /\ UNCHANGED shapeVars
    /\ UNCHANGED <<pairVars, locVars, fxVars>>
    /\ UNCHANGED parseVars
   
    /\ messages' = Renumber(city_overflow_prune(city_prune(messages)))
    /\ calls' = CountCalls(calls + 1)
    /\ UNCHANGED <<agent, pc, retry, slept, response, tool_results, queries, outcome, toolVars>>

\* messages.create raises any other error: re-raised
CityCompletionFails ==
    /\ CityLoopHead
    /\ iteration' = iteration + 1
    /\ messages' = Renumber(city_prune(messages))
    /\ calls' = CountCalls(calls + 1)
    /\ pc' = "raised" /\ outcome' = "completion_error"
    /\ UNCHANGED <<agent, retry, slept, response, tool_results, queries, toolVars>>
    /\ UNCHANGED overflows
    /\ UNCHANGED shapeVars
    /\ UNCHANGED <<pairVars, locVars, fxVars>>
    /\ UNCHANGED parseVars

\* the while condition fails: "Max iterations reached without completion"
CityExhausted ==
    /\ agent = "city" /\ pc = "loop" /\ iteration >= CityMaxIterations
    /\ pc' = "done" /\ outcome' = "max_iterations"
    /\ UNCHANGED <<agent, messages, iteration, retry, slept, response, tool_results,
                   calls, queries, toolVars>>
    /\ UNCHANGED overflows
    /\ UNCHANGED shapeVars
    /\ UNCHANGED <<pairVars, locVars, fxVars>>
    /\ UNCHANGED parseVars

\* one pass of `for tool_use in tool_uses`
CityDispatch ==
    /\ agent = "city" /\ pc = "dispatch" /\ Len(tool_results) < Len(response.ids)
    /\ \E req \in CityRequests :
          /\ result' \in {AsAttached(r) : r \in CityInsightsAnalyzer_execute_tool(req.name, req.sql)}
          /\ fn' = req.name /\ operation' = req.operation
          /\ sql' = req.sql /\ allow_write' = req.allow_write
          /\ queries' = IF req.name \in BudgetedTools THEN CountQueries(queries + 1) ELSE queries
    /\ tool_results' = Append(tool_results, response.ids[Len(tool_results) + 1])
    /\ UNCHANGED <<agent, pc, messages, iteration, retry, slept, response, calls, outcome>>
    /\ UNCHANGED overflows
    /\ UNCHANGED shapeVars
    /\ UNCHANGED <<pairVars, locVars, fxVars>>
    /\ UNCHANGED parseVars

\* after the for loop: "Add to conversation"
CityAppend ==
    /\ agent = "city" /\ pc = "dispatch" /\ Len(tool_results) = Len(response.ids)
    /\ messages' = messages \o <<AssistantMsg("content", response.ids), ToolResultsMsg(tool_results)>>
    /\ pc' = "loop"
    /\ response' = NoResponse /\ tool_results' = <<>>
    /\ ResetToolVars
    /\ UNCHANGED <<agent, iteration, retry, slept, calls, queries, outcome>>
    /\ UNCHANGED overflows
    /\ UNCHANGED shapeVars
    /\ UNCHANGED <<pairVars, locVars, fxVars>>
    /\ UNCHANGED parseVars

(***************************************************************************)
(* CityInsightsAnalyzerGemini.analyze_city.  The chat session object keeps *)
(* the conversation; the code holds only the latest response.              *)
(***************************************************************************)
GeminiResponses ==
    {[finish |-> "n/a", ids |-> FreshIds(<<>>, n), text |-> t] : n \in 0..MaxToolsPerTurn, t \in BOOLEAN}

\* chat.send_message(full_prompt) returns
GeminiInitialReturns ==
    /\ agent = "gemini" /\ pc = "initial"
    /\ calls' = CountCalls(calls + 1)
    /\ response' \in GeminiResponses
    /\ pc' = "loop"
    /\ UNCHANGED <<agent, messages, iteration, retry, slept, tool_results, queries, outcome, toolVars>>
    /\ UNCHANGED overflows
    /\ UNCHANGED shapeVars
    /\ UNCHANGED <<pairVars, locVars, fxVars>>
    /\ UNCHANGED parseVars

\* chat.send_message(full_prompt) raises: "Initial message failed"
GeminiInitialFails ==
    /\ agent = "gemini" /\ pc = "initial"
    /\ calls' = CountCalls(calls + 1)
    /\ pc' = "done" /\ outcome' = "initial_failed"
    /\ UNCHANGED <<agent, messages, iteration, retry, slept, response, tool_results, queries, toolVars>>
    /\ UNCHANGED overflows
    /\ UNCHANGED shapeVars
    /\ UNCHANGED <<pairVars, locVars, fxVars>>
    /\ UNCHANGED parseVars

\* top of the while loop: count the iteration and look at the response
GeminiInspect ==
    /\ agent = "gemini" /\ pc = "loop" /\ iteration < GeminiMaxIterations
    /\ iteration' = iteration + 1
    /\ tool_results' = <<>>
    /\ IF Len(response.ids) > 0 THEN pc' = "dispatch" /\ outcome' = outcome /\ UNCHANGED parseVars
       ELSE IF response.text
            THEN /\ pc' = "done" /\ outcome' = "final"
                 /\ \E final_response \in RunFinalTexts :
                       text' = final_response /\ answer' = insight_data[final_response]
       ELSE \* "No text or function calls in response": break
            pc' = "done" /\ outcome' = "max_iterations" /\ UNCHANGED parseVars
    /\ UNCHANGED <<agent, messages, retry, slept, response, calls, queries, toolVars>>
    /\ UNCHANGED overflows
    /\ UNCHANGED shapeVars
    /\ UNCHANGED <<pairVars, locVars, fxVars>>

\* the while condition fails: "Max iterations reached without completion"
GeminiExhausted ==
    /\ agent = "gemini" /\ pc = "loop" /\ iteration >= GeminiMaxIterations
    /\ pc' = "done" /\ outcome' = "max_iterations"
    /\ UNCHANGED <<agent, messages, iteration, retry, slept, response, tool_results,
                   calls, queries, toolVars>>
    /\ UNCHANGED overflows
    /\ UNCHANGED shapeVars
    /\ UNCHANGED <<pairVars, locVars, fxVars>>
    /\ UNCHANGED parseVars

\* one pass of `for fc in function_calls`
GeminiDispatch ==
    /\ agent = "gemini" /\ pc = "dispatch" /\ Len(tool_results) < Len(response.ids)
    /\ \E req \in CityRequests :
          /\ result' \in {AsAttached(r) : r \in CityInsightsAnalyzerGemini_execute_tool(req.name, req.sql)}
          /\ fn' = req.name /\ operation' = req.operation
          /\ sql' = req.sql /\ allow_write' = req.allow_write
          /\ queries' = IF req.name \in BudgetedTools THEN CountQueries(queries + 1) ELSE queries
    /\ tool_results' = Append(tool_results, response.ids[Len(tool_results) + 1])
    /\ UNCHANGED <<agent, pc, messages, iteration, retry, slept, response, calls, outcome>>
    /\ UNCHANGED overflows
    /\ UNCHANGED shapeVars
    /\ UNCHANGED <<pairVars, locVars, fxVars>>
    /\ UNCHANGED parseVars

\* chat.send_message(function_responses) returns the next response
GeminiSendReturns ==
    /\ agent = "gemini" /\ pc = "dispatch" /\ Len(tool_results) = Len(response.ids)
    /\ calls' = CountCalls(calls + 1)
    /\ response' \in GeminiResponses
    /\ pc' = "loop" /\ tool_results' = <<>>
    /\ ResetToolVars
    /\ UNCHANGED <<agent, messages, iteration, retry, slept, queries, outcome>>
    /\ UNCHANGED overflows
    /\ UNCHANGED shapeVars
    /\ UNCHANGED <<pairVars, locVars, fxVars>>
    /\ UNCHANGED parseVars

\* chat.send_message(function_responses) raises: caught by the loop's except, which
\* sleeps 2 s and breaks out to the "Max iterations reached" return
GeminiSendFails ==
    /\ agent = "gemini" /\ pc = "dispatch" /\ Len(tool_results) = Len(response.ids)
    /\ calls' = CountCalls(calls + 1)
    /\ slept' = <<GeminiErrorSleep>>
    /\ pc' = "done" /\ outcome' = "max_iterations"
    /\ UNCHANGED <<agent, messages, iteration, retry, response, tool_results, queries, toolVars>>
    /\ UNCHANGED overflows
    /\ UNCHANGED shapeVars
    /\ UNCHANGED <<pairVars, locVars, fxVars>>
    /\ UNCHANGED parseVars

Next ==
    \/ MindsDBCompletionReturns
    \/ MindsDBRateLimited
    \/ MindsDBCompletionFails
    \/ MindsDBDispatch
    \/ MindsDBDispatchRaises
    \/ MindsDBAppend
    \/ CityCompletionReturns
    \/ CityRateLimited
    \/ CityContextOverflow
    \/ CityCompletionFails
    \/ CityExhausted
    \/ CityDispatch
    \/ CityAppend
    \/ GeminiInitialReturns
    \/ GeminiInitialFails
    \/ GeminiInspect
    \/ GeminiExhausted
    \/ GeminiDispatch
    \/ GeminiSendReturns
    \/ GeminiSendFails

Spec == Init /\ [][Next]_vars

\* the run has returned to its caller or raised
Terminated == pc \in {"done", "raised"}

\* Every completion call and every tool execution returns (or raises): a run that
\* can take a step takes one.
FairSpec == Spec /\ WF_vars(Next)

(***************************************************************************)
(* SpecShape: one executor result handed to the conversation by one tool   *)
(* branch.                                                                 *)
(***************************************************************************)
InitShape ==
    /\ agent = "shape" /\ pc = "call"
    /\ raw \in ExecutorResults /\ payload = NoPayload
    /\ AgentIdle /\ ToolVarsIdle /\ ParseIdle /\ PairIdle /\ LocIdle /\ FxIdle

CityShapeResult ==
    /\ agent = "shape" /\ pc = "call"
    /\ payload' = CityInsightsAnalyzer_shape(raw)
    /\ fn' = "CityInsightsAnalyzer._execute_tool" /\ pc' = "returned"
    /\ UNCHANGED <<agentVars, sql, allow_write, operation, result, raw>>
    /\ UNCHANGED <<parseVars, pairVars, locVars, fxVars>>

GeminiShapeResult ==
    /\ agent = "shape" /\ pc = "call"
    /\ payload' = CityInsightsAnalyzerGemini_shape(raw)
    /\ fn' = "CityInsightsAnalyzerGemini._execute_tool" /\ pc' = "returned"
    /\ UNCHANGED <<agentVars, sql, allow_write, operation, result, raw>>
    /\ UNCHANGED <<parseVars, pairVars, locVars, fxVars>>

AttachQueryMindsdb ==
    /\ agent = "shape" /\ pc = "call"
    /\ payload' = MindsDBAgent_attach_mindsdb(raw)
    /\ fn' = "query_mindsdb" /\ pc' = "returned"
    /\ UNCHANGED <<agentVars, sql, allow_write, operation, result, raw>>
    /\ UNCHANGED <<parseVars, pairVars, locVars, fxVars>>

AttachQueryPostgresDirect ==
    /\ agent = "shape" /\ pc = "call"
    /\ payload' = MindsDBAgent_attach_postgres_direct(raw)
    /\ fn' = "query_postgres_direct" /\ pc' = "returned"
    /\ UNCHANGED <<agentVars, sql, allow_write, operation, result, raw>>
    /\ UNCHANGED <<parseVars, pairVars, locVars, fxVars>>

\* the rows of raw are the `data` argument of export_query_results
AttachExport ==
    /\ agent = "shape" /\ pc = "call" /\ raw.success
    /\ \E res \in ExportTool_export(raw.data) : payload' = execute_export_tool_summary(res)
    /\ fn' = "export_query_results" /\ pc' = "returned"
    /\ UNCHANGED <<agentVars, sql, allow_write, operation, result, raw>>
    /\ UNCHANGED <<parseVars, pairVars, locVars, fxVars>>

AttachUnknownTool ==
    /\ agent = "shape" /\ pc = "call"
    /\ payload' = MindsDBAgent_attach_unknown("unknown_tool")
    /\ fn' = "unknown_tool" /\ pc' = "returned"
    /\ UNCHANGED <<agentVars, sql, allow_write, operation, result, raw>>
    /\ UNCHANGED <<parseVars, pairVars, locVars, fxVars>>

NextShape ==
    \/ CityShapeResult
    \/ GeminiShapeResult
    \/ AttachQueryMindsdb
    \/ AttachQueryPostgresDirect
    \/ AttachExport
    \/ AttachUnknownTool

SpecShape == InitShape /\ [][NextShape]_vars

(***************************************************************************)
(* SpecParse: one final text turned into the value the run returns.        *)
(***************************************************************************)
InitParse ==
    /\ agent = "parse" /\ pc = "call"
    /\ text \in FinalTexts /\ answer = NoValue
    /\ AgentIdle /\ ToolVarsIdle /\ ShapeIdle /\ PairIdle /\ LocIdle /\ FxIdle

CityParseFinal ==
    /\ agent = "parse" /\ pc = "call"
    /\ answer' = parse_final_response(text)
    /\ fn' = "CityInsightsAnalyzer.analyze_city" /\ pc' = "returned"
    /\ UNCHANGED <<agentVars, sql, allow_write, operation, result, shapeVars, text, pairVars,
                   locVars, fxVars>>

GeminiParseFinal ==
    /\ agent = "parse" /\ pc = "call"
    /\ answer' = parse_final_response(text)
    /\ fn' = "CityInsightsAnalyzerGemini.analyze_city" /\ pc' = "returned"
    /\ UNCHANGED <<agentVars, sql, allow_write, operation, result, shapeVars, text, pairVars,
                   locVars, fxVars>>

MindsDBReturnFinal ==
    /\ agent = "parse" /\ pc = "call"
    /\ answer' = raw_answer(text)
    /\ fn' = "MindsDBAgent.run" /\ pc' = "returned"
    /\ UNCHANGED <<agentVars, sql, allow_write, operation, result, shapeVars, text, pairVars,
                   locVars, fxVars>>

NextParse ==
    \/ CityParseFinal
    \/ GeminiParseFinal
    \/ MindsDBReturnFinal

SpecParse == InitParse /\ [][NextParse]_vars

(***************************************************************************)
(* SpecPair: two requests served at once.  Python lists are objects: the   *)
(* heap maps a list's identity to its content, a run holds an identity.    *)
(***************************************************************************)
Runs == {1, 2}

\* most tool turns of one run
MaxPairTurns == 3

\* the list the request model builds from the body of request r
RequestList(r) == <<"request", r>>

\* the list run r creates itself
OwnList(r) == <<"run", r>>

ListIds == {RequestList(r) : r \in Runs} \cup {OwnList(r) : r \in Runs}

PairQueries == <<"first query", "second query">>

\* conversation_history as one list for all requests
request_history_shared(r) == RequestList(1)

\* query_agent: request.conversation_history, built for this request alone
request_history(r) == RequestList(r)

\* the locals of run r before its first statement
NewRun(a, r) == [agent |-> a, pc |-> "start", messages |-> OwnList(r), iteration |-> 0,
                 turns |-> 0, outcome |-> "none", steps |-> 0]

InitPair ==
    /\ agent = "pair" /\ pc = "serving"
    /\ \E a \in [Runs -> {"mindsdb", "city"}], k \in [Runs -> HistoryPairs] :
          /\ runs = [r \in Runs |-> NewRun(a[r], r)]
          /\ heap = [l \in ListIds |->
                        IF \E r \in Runs : l = RequestList(r) /\ a[r] = "mindsdb"
                        THEN History(k[l[2]]) ELSE <<>>]
    /\ AgentIdle /\ ToolVarsIdle /\ ShapeIdle /\ ParseIdle /\ LocIdle /\ FxIdle

\* the conversation of run r
Conversation(r) == heap[runs[r].messages]

\* MindsDBAgent.run up to its loop: messages = conversation_history or []; append
PairStartMindsDB ==
    /\ agent = "pair"
    /\ \E r \in Runs :
          /\ runs[r].agent = "mindsdb" /\ runs[r].pc = "start"
          /\ LET conversation_history == request_history(r)
                 list == IF heap[conversation_history] # <<>> THEN conversation_history
                         ELSE OwnList(r)
             IN  /\ heap' = [heap EXCEPT ![list] = Append(@, UserMsg(PairQueries[r]))]
                 /\ runs' = [runs EXCEPT ![r].messages = list, ![r].pc = "loop",
                                         ![r].steps = @ + 1]
    /\ UNCHANGED <<agent, pc, agentVars, toolVars, shapeVars, parseVars, locVars, fxVars>>

\* analyze_city up to its loop: messages = [{"role": "user", ...}]
PairStartCity ==
    /\ agent = "pair"
    /\ \E r \in Runs :
          /\ runs[r].agent = "city" /\ runs[r].pc = "start"
          /\ heap' = [heap EXCEPT ![OwnList(r)] = <<UserMsg(PairQueries[r])>>]
          /\ runs' = [runs EXCEPT ![r].messages = OwnList(r), ![r].pc = "loop",
                                  ![r].steps = @ + 1]
    /\ UNCHANGED <<agent, pc, agentVars, toolVars, shapeVars, parseVars, locVars, fxVars>>

\* one tool turn of MindsDBAgent.run: append and extend in place, then prune into a
\* new list
PairMindsDBToolTurn ==
    /\ agent = "pair"
    /\ \E r \in Runs, n \in 1..MaxToolsPerTurn :
          /\ runs[r].agent = "mindsdb" /\ runs[r].pc = "loop" /\ runs[r].turns < MaxPairTurns
          /\ LET ids == FreshIds(Conversation(r), n)
                 appended == Conversation(r) \o <<AssistantMsg("text", ids)>> \o ToolMsgs(ids)
             IN  IF Len(appended) > PruneThreshold
                 THEN /\ heap' = [heap EXCEPT ![runs[r].messages] = appended,
                                              ![OwnList(r)] = prune_messages(appended)]
                      /\ runs' = [runs EXCEPT ![r].messages = OwnList(r), ![r].turns = @ + 1,
                                              ![r].steps = @ + 1]
                 ELSE /\ heap' = [heap EXCEPT ![runs[r].messages] = appended]
                      /\ runs' = [runs EXCEPT ![r].turns = @ + 1, ![r].steps = @ + 1]
    /\ UNCHANGED <<agent, pc, agentVars, toolVars, shapeVars, parseVars, locVars, fxVars>>

\* one tool turn of analyze_city: prune into a new list, then append
PairCityToolTurn ==
    /\ agent = "pair"
    /\ \E r \in Runs, n \in 1..MaxToolsPerTurn :
          /\ runs[r].agent = "city" /\ runs[r].pc = "loop" /\ runs[r].turns < MaxPairTurns
          /\ runs[r].iteration < CityMaxIterations
          /\ LET pruned == city_prune(Conversation(r))
                 ids == FreshIds(pruned, n)
             IN  heap' = [heap EXCEPT ![OwnList(r)] =
                             pruned \o <<AssistantMsg("text", ids), ToolResultsMsg(ids)>>]
          /\ runs' = [runs EXCEPT ![r].messages = OwnList(r), ![r].iteration = @ + 1,
                                  ![r].turns = @ + 1, ![r].steps = @ + 1]
    /\ UNCHANGED <<agent, pc, agentVars, toolVars, shapeVars, parseVars, locVars, fxVars>>

\* the completion call returns a final turn: the run returns
PairFinal ==
    /\ agent = "pair"
    /\ \E r \in Runs :
          /\ runs[r].pc = "loop"
          /\ runs' = [runs EXCEPT ![r].pc = "done", ![r].outcome = "final", ![r].steps = @ + 1,
                                  ![r].iteration = IF runs[r].agent = "city" THEN @ + 1 ELSE @]
    /\ UNCHANGED <<agent, pc, heap, agentVars, toolVars, shapeVars, parseVars, locVars, fxVars>>

\* the completion call raises: the run raises
PairFails ==
    /\ agent = "pair"
    /\ \E r \in Runs :
          /\ runs[r].pc = "loop"
          /\ runs' = [runs EXCEPT ![r].pc = "done", ![r].outcome = "completion_error",
                                  ![r].steps = @ + 1,
                                  ![r].iteration = IF runs[r].agent = "city" THEN @ + 1 ELSE @]
    /\ UNCHANGED <<agent, pc, heap, agentVars, toolVars, shapeVars, parseVars, locVars, fxVars>>

NextPair ==
    \/ PairStartMindsDB
    \/ PairStartCity
    \/ PairMindsDBToolTurn
    \/ PairCityToolTurn
    \/ PairFinal
    \/ PairFails

SpecPair == InitPair /\ [][NextPair]_vars

(***************************************************************************)
(* SpecLocate: parse_query_for_location applied to one query.              *)
(***************************************************************************)
InitLocate ==
    /\ agent = "locate" /\ pc = "call"
    /\ query \in LocationQueries /\ location = NoLocation
    /\ AgentIdle /\ ToolVarsIdle /\ ShapeIdle /\ ParseIdle /\ PairIdle /\ FxIdle

\* get_insights_natural_language: city_name, country_code = parse_query_for_location(...)
ParseQueryForLocation ==
    /\ agent = "locate" /\ pc = "call"
    /\ location' = parse_query_for_location(query)
    /\ fn' = "parse_query_for_location" /\ pc' = "returned"
    /\ UNCHANGED <<agentVars, sql, allow_write, operation, result, shapeVars, parseVars,
                   pairVars, query, fxVars>>

NextLocate == ParseQueryForLocation

SpecLocate == InitLocate /\ [][NextLocate]_vars

(***************************************************************************)
(* SpecStore: one call of analyze_and_store, execute_postgres_direct_tool  *)
(* or execute_postgres_tool, from its first statement to its return, with  *)
(* the connection pool of the tool object it uses.                         *)
(***************************************************************************)
StoreEntries == {"analyze_and_store", "execute_postgres_direct_tool", "execute_postgres_tool"}

PostgresToolOperations ==
    {"add_column", "drop_column", "rename_column", "get_schema", "list_tables", "custom_sql",
     "vacuum"}

InitStore ==
    /\ agent = "store"
    /\ \E entry \in StoreEntries, create_alert \in BOOLEAN :
          /\ job = [NoJob EXCEPT !.entry = entry, !.create_alert = create_alert]
          /\ entry # "analyze_and_store" => ~create_alert
          /\ pc = IF entry = "analyze_and_store" THEN "analyze" ELSE "body"
    /\ pool = "None" /\ effects = <<>>
    /\ files = {} /\ exports = <<>> /\ clock = 0
    /\ AgentIdle /\ ToolVarsIdle /\ ShapeIdle /\ ParseIdle /\ PairIdle /\ LocIdle

\* Step 1: insight_data = await self.analyze_city(...); the query_database calls of the
\* run connect self.postgres
StoreAnalyze ==
    /\ agent = "store" /\ pc = "analyze"
    /\ pool' \in PostgresDirectTool_connect(pool)
    /\ \E how \in {"success", "failure", "raised"}, insight \in InsightKinds :
          /\ how # "success" => insight = "record"
          /\ job' = [job EXCEPT !.analysis = how,
                                !.insight = IF how = "success" THEN insight ELSE "none",
                                !.opened = pool' = "open"]
          /\ pc' = IF how = "success" THEN "store" ELSE "finally"
    /\ UNCHANGED <<effects, files, exports, clock>>
    /\ UNCHANGED <<agentVars, toolVars, shapeVars, parseVars, pairVars, locVars>>

\* Step 2: store_result = await self.store_insight(insight_data)
StoreInsight ==
    /\ agent = "store" /\ pc = "store"
    /\ IF job.insight = "not_a_record"
       THEN \* connect(), then insight.get raises inside the try of store_insight
            /\ pool' \in PostgresDirectTool_connect(pool)
            /\ job' = [job EXCEPT !.store = "failure", !.opened = job.opened \/ pool' = "open"]
            /\ effects' = effects /\ pc' = "finally"
       ELSE \* connect(), then query(sql, params), which connects when there is no pool
            /\ pool' \in UNION {PostgresDirectTool_connect(p) : p \in PostgresDirectTool_connect(pool)}
            /\ \E inserted \in BOOLEAN :
                  /\ inserted => pool' = "open"
                  /\ effects' = IF pool' = "open"
                                THEN Append(effects, IF inserted THEN "insert" ELSE "insert_failed")
                                ELSE effects
                  /\ job' = [job EXCEPT !.store = IF inserted THEN "success" ELSE "failure",
                                        !.opened = job.opened \/ pool' = "open"]
                  /\ pc' = IF inserted THEN "alert" ELSE "finally"
    /\ UNCHANGED <<files, exports, clock>>
    /\ UNCHANGED <<agentVars, toolVars, shapeVars, parseVars, pairVars, locVars>>

\* Step 3: create_insight_alert when create_alert is set, then the result dict
StoreAlert ==
    /\ agent = "store" /\ pc = "alert"
    /\ IF ~job.create_alert
       THEN /\ job' = [job EXCEPT !.alert = "skipped", !.success = TRUE]
            /\ UNCHANGED <<effects, pool>>
       ELSE IF job.insight = "record_other_recommendations"
       THEN \* '• ' + rec raises TypeError while the description is built: caught by the
            \* except of analyze_and_store
            /\ job' = [job EXCEPT !.alert = "raised", !.success = FALSE]
            /\ UNCHANGED <<effects, pool>>
       ELSE \E alerted \in BOOLEAN, updated \in BOOLEAN :
            /\ ~alerted => ~updated
            /\ pool' \in PostgresDirectTool_connect(pool)
            /\ updated => pool' = "open"
            /\ ~alerted => pool' = pool
            /\ job' = [job EXCEPT !.alert = IF alerted THEN "success" ELSE "failure",
                                  !.success = TRUE]
            /\ effects' = effects
                 \o <<IF alerted THEN "alert" ELSE "alert_failed">>
                 \o (IF alerted /\ pool' = "open"
                     THEN <<IF updated THEN "update" ELSE "update_failed">> ELSE <<>>)
    /\ pc' = "finally"
    /\ UNCHANGED <<files, exports, clock>>
    /\ UNCHANGED <<agentVars, toolVars, shapeVars, parseVars, pairVars, locVars>>

\* execute_postgres_direct_tool: the body of the try
PostgresDirectBody ==
    /\ agent = "store" /\ pc = "body" /\ job.entry = "execute_postgres_direct_tool"
    /\ \E op \in PostgresDirectOperations, s \in AgentSqlTexts \cup {<<>>}, raises \in BOOLEAN :
          /\ operation' = op /\ sql' = s
          /\ IF raises
             THEN \* an argument of the wrong type raises out of the try
                  /\ op = "custom_query" /\ s = <<>>
                  /\ result' = NoResult /\ pool' = pool
                  /\ job' = [job EXCEPT !.analysis = "raised"]
             ELSE /\ result' \in execute_postgres_direct_tool(op, s)
                  /\ pool' = IF result'.executed /\ result'.error # "connect_failed"
                             THEN "open" ELSE pool
                  /\ job' = [job EXCEPT !.success = result'.success, !.opened = pool' = "open"]
    /\ fn' = "execute_postgres_direct_tool" /\ pc' = "finally"
    /\ UNCHANGED <<effects, files, exports, clock, allow_write>>
    /\ UNCHANGED <<agentVars, shapeVars, parseVars, pairVars, locVars>>

\* execute_postgres_tool: the body of the try
PostgresToolBody ==
    /\ agent = "store" /\ pc = "body" /\ job.entry = "execute_postgres_tool"
    /\ \E op \in PostgresToolOperations, arguments_given \in BOOLEAN, ok \in BOOLEAN :
          /\ operation' = op
          /\ IF op = "vacuum" \/ (~arguments_given /\ op # "list_tables")
             THEN \* unknown operation, or a required argument is missing
                  /\ ~ok /\ pool' = pool
                  /\ result' = Rejected(IF op = "vacuum" THEN "Unknown operation"
                                        ELSE "argument required")
             ELSE \* the tool method calls initialize(), then runs its statement
                  /\ pool' \in PostgresDirectTool_connect(pool)
                  /\ ok => pool' = "open"
                  /\ result' = Executed(IF ok THEN "rows"
                                        ELSE IF pool' = "open" THEN "postgres_error"
                                        ELSE "connect_failed")
          /\ job' = [job EXCEPT !.success = ok, !.opened = pool' = "open"]
    /\ fn' = "execute_postgres_tool" /\ pc' = "finally"
    /\ UNCHANGED <<effects, files, exports, clock, sql, allow_write>>
    /\ UNCHANGED <<agentVars, shapeVars, parseVars, pairVars, locVars>>

\* finally: await tool.close() / await self.postgres.close(); then the call returns
\* or the exception leaves it
StoreFinally ==
    /\ agent = "store" /\ pc = "finally"
    /\ pool' = PostgresDirectTool_close(pool)
    /\ pc' = "returned"
    /\ UNCHANGED <<effects, job, files, exports, clock>>
    /\ UNCHANGED <<agentVars, toolVars, shapeVars, parseVars, pairVars, locVars>>

NextStore ==
    \/ StoreAnalyze
    \/ StoreInsight
    \/ StoreAlert
    \/ PostgresDirectBody
    \/ PostgresToolBody
    \/ StoreFinally

SpecStore == InitStore /\ [][NextStore]_vars

(***************************************************************************)
(* export_tool.py: execute_export_tool writes the rows of a query to a     *)
(* file under results/.  exports holds the calls of the runs, files the    *)
(* directory, clock the wall clock in ticks.                               *)
(***************************************************************************)
MaxClock == 3
TicksPerSecond == 2
ExportCalls == {1, 2}
ExportFormats == {"csv", "json"}
ExportFilenames == {"None", "report"}
ExportData == {<<>>, <<1>>, <<2>>}
NoExportResult == [success |-> FALSE, filepath |-> "none", row_count |-> 0]

\* datetime.now().strftime("%Y%m%d_%H%M%S"): the text names the second, the part of
\* the second is dropped
strftime(now) == now \div TicksPerSecond

\* if not filename: filename = f"query_results_{timestamp}.csv" (or .json);
\* filepath = self.output_dir / filename
ExportTool_filepath(format, filename, now) ==
    <<"results", IF filename = "None"
                 THEN <<"query_results_", strftime(now), format>>
                 ELSE <<filename>>>>

\* open(filepath, 'w'): the file is created or truncated, then holds what was written
ExportTool_write(dir, path, format, data) ==
    {f \in dir : f.path # path} \cup {[path |-> path, format |-> format, rows |-> data]}

InitExport ==
    /\ agent = "export" /\ pc = "export"
    /\ exports \in [ExportCalls -> [format : ExportFormats, filename : ExportFilenames,
                                    data : ExportData, state : {"pending"},
                                    result : {NoExportResult}]]
    /\ files = {} /\ clock = 0
    /\ pool = "None" /\ effects = <<>> /\ job = NoJob
    /\ AgentIdle /\ ToolVarsIdle /\ ShapeIdle /\ ParseIdle /\ PairIdle /\ LocIdle

\* execute_export_tool: tool = ExportTool(); export_to_json or export_to_csv; the
\* summary of the result.  The function holds no await, so a call is one step.
ExportCall(i) ==
    /\ agent = "export" /\ exports[i].state = "pending"
    /\ LET call == exports[i]
           format == IF call.format = "json" THEN "json" ELSE "csv"
           path == ExportTool_filepath(format, call.filename, clock)
       IN  \E written \in BOOLEAN :
              /\ files' = IF written
                          THEN ExportTool_write(files, path, format, call.data)
                          ELSE files
              /\ exports' = [exports EXCEPT
                    ![i].state = "returned",
                    ![i].result = IF written
                                  THEN [success |-> TRUE, filepath |-> path,
                                        row_count |-> Len(call.data)]
                                  ELSE NoExportResult]
    /\ UNCHANGED <<pc, pool, effects, job, clock>>
    /\ UNCHANGED <<agentVars, toolVars, shapeVars, parseVars, pairVars, locVars>>

\* time passes between and before the calls
ExportTick ==
    /\ agent = "export" /\ clock < MaxClock
    /\ clock' = clock + 1
    /\ UNCHANGED <<pc, pool, effects, job, files, exports>>
    /\ UNCHANGED <<agentVars, toolVars, shapeVars, parseVars, pairVars, locVars>>

NextExport ==
    \/ \E i \in ExportCalls : ExportCall(i)
    \/ ExportTick

SpecExport == InitExport /\ [][NextExport]_vars

(***************************************************************************)
(* Vocabulary of the claims about SQL text.                                *)
(***************************************************************************)
IdentChars == LowerSet \cup UpperSet \cup DigitSet \cup {"_"}

IsIdentChar(c) == c \in IdentChars

\* a row-limiting clause starts at i: the word LIMIT (any letter case, not part of a
\* longer identifier), whitespace, then a number or a $n parameter
RowLimitClauseAt(s, i) ==
    /\ MatchAt(lower(s), Str_limit, i)
    /\ (i = 1 \/ ~IsIdentChar(s[i - 1]))
    /\ LET ws == i + Len(Str_limit)
           d  == SkipWhile(s, ws, Whitespace)
       IN d > ws /\ d <= Len(s) /\ (IsDigit(s[d]) \/ s[d] = "$")

HasRowLimitClause(s) == \E i \in 1..Len(s) : RowLimitClauseAt(s, i)

\* the leading keyword of a statement: its first word after trimming, lower-cased
LeadingKeyword(s) ==
    LET t == strip(s)
    IN lower(SubSeq(t, 1, SkipWhile(t, 1, LowerSet \cup UpperSet) - 1))

WriteWords == Keywords \ { <<"s", "e", "l", "e", "c", "t">> }

Returned(name) == agent = "tool" /\ pc = "returned" /\ fn = name

LimitCheckedTools ==
    { "CityInsightsAnalyzer._execute_tool", "CityInsightsAnalyzerGemini._execute_tool",
      "execute_postgres_direct_tool" }

\* C6: query_database (both analyzers) and query_postgres_direct with
\* operation custom_query answer SQL text that has no row-limiting clause with an
\* error result, and PostgresDirectTool.query is not invoked for it.
C6_NoLimitClauseNeverExecuted ==
    (agent = "tool" /\ pc = "returned" /\ fn \in LimitCheckedTools
        /\ (fn = "execute_postgres_direct_tool" => operation = "custom_query")
        /\ ~HasRowLimitClause(sql))
        => (~result.success /\ ~result.executed)

\* C7: MindsDBTool.query (also through count_records) rejects every SQL string
\* that lacks a row-limiting clause, whichever columns it touches, and sends no HTTP
\* request for it.
C7_EveryUnlimitedQueryRejected ==
    /\ (Returned("MindsDBTool.query") /\ ~HasRowLimitClause(sql))
          => (~result.success /\ ~result.executed)
    /\ (Returned("execute_mindsdb_tool") /\ operation = "count")
          => (~result.success /\ ~result.executed)

\* C8: MindsDBTool.query called with allow_write unset rejects every SQL string whose
\* leading keyword is INSERT, UPDATE, DELETE, ALTER, CREATE, DROP or TRUNCATE (after
\* trimming, in any letter case) and sends no request to the executor.
C8_WriteRejectedWithoutAllowWrite ==
    (Returned("MindsDBTool.query") /\ ~allow_write /\ LeadingKeyword(sql) \in WriteWords)
        => (result = Rejected("WriteNotAllowed"))

C8_Witness ==
    /\ Returned("MindsDBTool.query") /\ ~allow_write
    /\ LeadingKeyword(sql) = <<"t", "r", "u", "n", "c", "a", "t", "e">>
    /\ sql[1] = "\n" /\ sql[3] = "t" /\ sql[4] = "R"
    /\ result = Rejected("WriteNotAllowed")

(***************************************************************************)
(* Vocabulary of the claims about the runs.                                *)
(***************************************************************************)
\* the budget of completion calls of each loop; MindsDBAgent.run states none and is
\* measured against the largest budget a loop of the repository has
iterations_max(a) ==
    CASE a = "city"   -> CityMaxIterations
      [] a = "gemini" -> GeminiMaxIterations
      [] OTHER        -> CityMaxIterations

\* the conversation the next completion call is handed, in the states in which a
\* completion call is the next thing the loop does
AboutToComplete ==
    \/ agent = "mindsdb" /\ pc = "complete"
    \/ agent = "city" /\ pc = "loop" /\ iteration < CityMaxIterations

NextConversation == IF agent = "city" THEN city_prune(messages) ELSE messages

HasRequests(msg) == msg.role = "assistant" /\ msg.calls # <<>>

\* m[i] requests tools and the messages right after it are the results answering its
\* call ids, one per request in request order (MindsDBAgent: one tool message per
\* call; analyze_city: one user message holding all the results)
AnsweredAt(m, i) ==
    LET n == Len(m[i].calls)
    IN \/ /\ i + n <= Len(m)
          /\ \A k \in 1..n : m[i + k].role = "tool" /\ m[i + k].results = <<m[i].calls[k]>>
       \/ /\ i + 1 <= Len(m)
          /\ m[i + 1].role = "user" /\ m[i + 1].results = m[i].calls

WellPaired(m) == \A i \in 1..Len(m) : HasRequests(m[i]) => AnsweredAt(m, i)

RECURSIVE SumSeq(_)
SumSeq(q) == IF q = <<>> THEN 0 ELSE q[1] + SumSeq(Tail(q))

\* C1: in one run of any of the three loops the number of completion calls issued
\* never exceeds the loop's iterations_max.
C1_CallsWithinIterationsMax == calls <= iterations_max(agent)

\* C2: in one run at most queries_max (8) query tool calls are dispatched: a 9th
\* request is never dispatched.
C2_AtMostQueriesMaxDispatched == queries <= QueriesMax

\* C3: every run eventually reaches a terminal state (it returns or raises), given
\* that every completion call and every tool execution returns.
C3_EveryRunTerminates == <>Terminated

\* C4: after any sequence of tool turns and prunes, in the conversation handed to the
\* next completion call every assistant turn with tool requests is immediately
\* followed by the tool results answering its call ids.
C4_RequestsKeepTheirResults == AboutToComplete => WellPaired(NextConversation)

\* a prune has cut the conversation of MindsDBAgent.run, which holds a turn with
\* several requests, and a completion call is next
C4_Witness ==
    /\ agent = "mindsdb" /\ pc = "complete"
    /\ Len(messages) >= PruneKeep /\ messages[2].role = "tool"
    /\ \E i \in 1..Len(messages) : HasRequests(messages[i]) /\ Len(messages[i].calls) > 1

\* the step that appends an assistant turn with tool requests (the end of the for
\* loop over the requests of a turn)
AppendsRequestTurn ==
    /\ agent \in {"mindsdb", "city"} /\ pc = "dispatch" /\ pc' \in {"complete", "loop"}
    /\ response.ids # <<>>

\* C5: whenever an assistant turn with tool requests is appended, the conversation
\* then ends with that turn followed by exactly one tool result per request, carrying
\* the matching call id, in request order; no completion call is made while the
\* requests of the turn are handled and appended.
C5_AppendedTurnIsAnsweredAtOnce ==
    [][ /\ AppendsRequestTurn =>
            LET m == messages'
                n == Len(response.ids)
                i == Len(m) - (IF agent = "mindsdb" THEN n ELSE 1)
            IN /\ i >= 1 /\ HasRequests(m[i]) /\ Len(m[i].calls) = n
               /\ AnsweredAt(m, i)
        /\ (agent \in {"mindsdb", "city"} /\ pc = "dispatch") => calls' = calls ]_vars

\* a turn with two requests has just been appended by MindsDBAgent.run
C5_Witness ==
    /\ agent = "mindsdb" /\ pc = "complete" /\ Len(messages) >= 3
    /\ LET m == messages
       IN /\ HasRequests(m[Len(m) - 2]) /\ Len(m[Len(m) - 2].calls) = 2
          /\ m[Len(m) - 1].role = "tool" /\ m[Len(m)].role = "tool"

\* C9: when the rate-limit error of MindsDBAgent.run is propagated, the backoff
\* sleeps performed for that completion call were 3, 6, 12, 24, 48 seconds, in order.
C9_FiveBackoffSleeps ==
    (agent = "mindsdb" /\ outcome = "rate_limit_error") => slept = <<3, 6, 12, 24, 48>>

\* C10: a completion call of MindsDBAgent.run that raised a rate-limit error twice
\* and then returned a final turn ends the run with a final answer, after backoff
\* sleeps of 3 and 6 seconds, 9 seconds in all.
C10_TwoRateLimitsThenFinal ==
    /\ (agent = "mindsdb" /\ pc = "complete" /\ retry = 2)
          => (slept = <<3, 6>> /\ outcome = "none")
    /\ (agent = "mindsdb" /\ pc = "done" /\ retry = 2)
          => (outcome = "final" /\ slept = <<3, 6>> /\ SumSeq(slept) = 9)

\* the third attempt of a completion call returned the final turn, after a tool turn
C10_Witness ==
    /\ agent = "mindsdb" /\ pc = "done" /\ retry = 2 /\ outcome = "final"
    /\ Len(messages) > 1 /\ messages[Len(messages)].role = "tool"

(***************************************************************************)
(* Vocabulary of the claims about tool results.                            *)
(***************************************************************************)
Shaped(name) == agent = "shape" /\ pc = "returned" /\ fn = name

ShaperTools == {"CityInsightsAnalyzer._execute_tool", "CityInsightsAnalyzerGemini._execute_tool"}

\* the rows of the executor result as the tool function named by fn serializes them
SerializedRows ==
    IF fn = "CityInsightsAnalyzerGemini._execute_tool"
    THEN [i \in 1..Len(raw.data) |-> clean_row(raw.data[i])]
    ELSE raw.data

\* length of str() of the result that holds the first five rows
FiveRowFormSize == Truncated(raw, "first5", FirstN(SerializedRows, 5), row_count(raw)).size

Min(a, b) == IF a < b THEN a ELSE b

\* C11: for a successful executor result with at least one row, query_database returns
\* the first 5 rows of the result, or the first 2 when the 5-row result serializes to
\* more than 3000 characters, and reports the executor's own row count
C11_ShapedKeepsFirstRowsAndOriginalCount ==
    (\E name \in ShaperTools : Shaped(name)) /\ raw.success /\ Len(raw.data) > 0 =>
        /\ payload.data = FirstN(SerializedRows, Len(payload.data))
        /\ Len(payload.data) = Min(Len(raw.data), IF FiveRowFormSize > 3000 THEN 2 ELSE 5)
        /\ payload.row_count = Len(raw.data)

\* six rows came back, the five-row form was too long, two rows are kept
C11_Witness ==
    /\ Shaped("CityInsightsAnalyzer._execute_tool")
    /\ raw.success /\ Len(raw.data) = 6 /\ FiveRowFormSize > 3000
    /\ Len(payload.data) = 2 /\ payload.row_count = 6


\* C12: every tool result handed to the conversation, by whichever tool branch, has a
\* serialized length of at most 3000
C12_AttachedWithinCeiling ==
    agent = "shape" /\ pc = "returned" => payload.size <= 3000

(***************************************************************************)
(* Vocabulary of the claims about the final answer.                        *)
(***************************************************************************)
ParsedBy(name) == agent = "parse" /\ pc = "returned" /\ fn = name

AnalyzeCityVariants ==
    {"CityInsightsAnalyzer.analyze_city", "CityInsightsAnalyzerGemini.analyze_city"}

KeysOf(v) == {v.items[i].key : i \in 1..Len(v.items)}

FinalAnswerFields ==
    {Str_insight_summary, Str_detailed_analysis, Str_data_sources_used, Str_confidence_score,
     Str_recommendations}

\* the value is a record that has the five fields of a final answer
IsFinalAnswer(v) == v.kind = "object" /\ FinalAnswerFields \subseteq KeysOf(v)

\* dict.get(key): the value of the last member with that key
Get(v, key) ==
    LET at == {i \in 1..Len(v.items) : v.items[i].key = key}
    IN  v.items[CHOOSE i \in at : \A j \in at : j <= i].val

\* C13: whatever the final text is, the parsing step of analyze_city yields a record
\* with the fields insight_summary, detailed_analysis, data_sources_used,
\* confidence_score and recommendations
C13_ParsingYieldsFinalAnswer ==
    (\E name \in AnalyzeCityVariants : ParsedBy(name)) => IsFinalAnswer(answer)

\* the run ended on its first completion call, whose turn was the record of the prompt
FirstTurnIsTheRecord ==
    /\ agent \in {"city", "gemini"} /\ pc = "done"
    /\ calls = 1 /\ response.ids = <<>> /\ text = Text_record

\* no turn but the user's is in the conversation and no tool ran
NothingDispatched ==
    /\ \A i \in 1..Len(messages) : messages[i].role = "user" /\ messages[i].results = <<>>
    /\ tool_results = <<>> /\ queries = 0 /\ fn = "none"

\* C14: when the first turn of analyze_city is a final turn whose text is the JSON record
\* with insight_summary "42 records" and confidence_score 0.9, the run succeeds with that
\* summary and that confidence, after one completion call and no tool dispatch
C14_RecordOnFirstTurnIsReturned ==
    FirstTurnIsTheRecord =>
        /\ outcome = "final"
        /\ IsFinalAnswer(answer)
        /\ Get(answer, Str_insight_summary) = JValue("string", Str_42_records, <<>>)
        /\ Get(answer, Str_confidence_score) = JValue("number", Str_0_9, <<>>)
        /\ NothingDispatched

C14_Witness ==
    /\ agent = "city" /\ FirstTurnIsTheRecord /\ outcome = "final"
    /\ Get(answer, Str_insight_summary).text = Str_42_records

\* the last completion call returned a turn without tool requests and the run is over
EndedOnTurnWithoutRequests ==
    /\ Terminated
    /\ response # NoResponse /\ response.ids = <<>> /\ response.finish # "tool_use"

\* C15: a completion call that returns a turn with no tool requests ends the run
\* successfully, with the answer made of that turn's text
C15_TurnWithoutRequestsEndsRunWithItsAnswer ==
    EndedOnTurnWithoutRequests => outcome = "final" /\ answer # NoValue

\* C16: the outcome "Max iterations reached without completion" is reported only by a
\* run that used up its iteration budget
C16_BudgetOutcomeOnlyWhenExhausted ==
    outcome = "max_iterations" => iteration >= iterations_max(agent)

\* C17: a request for a tool that is not known is answered, under its call id, by an
\* "Unknown tool" error result; no executor ran and the run did not raise
C17_UnknownToolIsAnsweredWithError ==
    agent \in {"mindsdb", "city", "gemini"} /\ fn = "unknown_tool" =>
        /\ result = Rejected("UnknownTool")
        /\ pc # "raised"
        /\ tool_results # <<>>

\* C18: the conversation handed to a completion call still holds the user turn that
\* started the run, whatever was pruned before
C18_PrunedConversationKeepsRunsUserTurn ==
    AboutToComplete =>
        \E i \in 1..Len(NextConversation) : NextConversation[i] = UserMsg("user_message")

\* C19: what execute_export_tool returns to the conversation is the summary (success,
\* message, filepath, row_count) or an error (success, error), and holds none of the
\* exported rows
C19_ExportReturnsSummaryWithoutRows ==
    Shaped("export_query_results") =>
        /\ payload.data = <<>>
        /\ payload.keys = IF payload.success
                          THEN {"success", "message", "filepath", "row_count"}
                          ELSE {"success", "error"}
        /\ payload.success => payload.row_count = Len(raw.data)

\* six rows were exported and the summary says so
C19_Witness ==
    /\ Shaped("export_query_results")
    /\ Len(raw.data) = 6 /\ payload.success /\ payload.row_count = 6 /\ payload.data = <<>>

(***************************************************************************)
(* Vocabulary of the claim about two runs.                                 *)
(***************************************************************************)
\* run r takes no part in the step
Idle(r) == runs'[r].steps = runs[r].steps

\* conversation, iteration counter and outcome of run r are what they were
CoreStateKept(r) ==
    /\ heap'[runs'[r].messages] = Conversation(r)
    /\ runs'[r].iteration = runs[r].iteration
    /\ runs'[r].outcome = runs[r].outcome

\* C20: of two runs served at once, each with its own agent object, no step of one run
\* changes the conversation, the iteration counter or the outcome of the other
C20_RunsShareNoCoreState ==
    [][agent = "pair" => \A r \in Runs : Idle(r) => CoreStateKept(r)]_vars

\* both runs are MindsDBAgent runs with a history, both are in their loops, and the
\* second has appended tool turns to its conversation while the first waited
C20_Witness ==
    /\ agent = "pair"
    /\ \A r \in Runs : runs[r].agent = "mindsdb" /\ runs[r].pc = "loop"
                       /\ runs[r].messages = RequestList(r)
    /\ runs[1].turns = 0 /\ runs[2].turns = 2
    /\ Len(Conversation(2)) > Len(Conversation(1))

(***************************************************************************)
(* Vocabulary of the claim about the location parser.                      *)
(***************************************************************************)
Located == agent = "locate" /\ pc = "returned"

\* entry i of the city list occurs in the lower-cased query, and no earlier entry does
FirstCityInList(i) ==
    /\ contains(lower(query), cities[i])
    /\ \A j \in 1..(i - 1) : ~contains(lower(query), cities[j])

\* a keyword of country group g occurs in the lower-cased query
GroupOccurs(g) ==
    \E k \in 1..Len(country_keywords[g].keywords) :
        contains(lower(query), country_keywords[g].keywords[k])

\* C21: parse_query_for_location returns as city the capitalized first entry of the city
\* list that occurs in the lower-cased query, None when no entry occurs, and as country
\* code the code of the first country group with a keyword in the query, "GB" when there
\* is none; the country code is never None
C21_LocationIsFirstListedCityAndFirstGroup ==
    Located =>
        /\ \A i \in 1..Len(cities) :
              FirstCityInList(i) => location.city_name = Some(capitalize(cities[i]))
        /\ (\A i \in 1..Len(cities) : ~contains(lower(query), cities[i]))
              => location.city_name = None
        /\ \A g \in 1..Len(country_keywords) :
              GroupOccurs(g) /\ (\A h \in 1..(g - 1) : ~GroupOccurs(h))
                  => location.country_code = country_keywords[g].code
        /\ (\A g \in 1..Len(country_keywords) : ~GroupOccurs(g)) => location.country_code = "GB"
        /\ location.country_code \in {"GB", "US", "AE", "SG", "JP"}

\* "Show me London and Bristol in America and Britain": Bristol comes first in the list,
\* the GB group comes first in the dict
C21_Witness ==
    /\ Located /\ query = Ask_show \o Place_two \o In_both
    /\ location.city_name = Some(<<"B", "r", "i", "s", "t", "o", "l">>)
    /\ location.country_code = "GB"

(***************************************************************************)
(* Vocabulary of the claims about the rejection rules of MindsDBTool.query.*)
(***************************************************************************)
\* SELECT (any letter case), whitespace, then an unqualified *
WildcardProjectionAt(s, i) ==
    /\ MatchAt(lower(s), <<"s", "e", "l", "e", "c", "t">>, i)
    /\ LET ws == i + 6
           d  == SkipWhile(s, ws, Whitespace)
       IN d > ws /\ d <= Len(s) /\ s[d] = "*"

HasWildcardProjection(s) == \E i \in 1..Len(s) : WildcardProjectionAt(s, i)

\* the numeric bound of the row-limiting clause that starts at i, -1 for a parameter
RowLimitBoundAt(s, i) ==
    LET d == SkipWhile(s, i + Len(Str_limit), Whitespace)
        e == SkipWhile(s, d, DigitSet)
    IN IF IsDigit(s[d]) THEN ParseInt(SubSeq(s, d, e - 1)) ELSE -1

RowLimitBounds(s) == {RowLimitBoundAt(s, i) : i \in {j \in 1..Len(s) : RowLimitClauseAt(s, j)}}

\* the rules in the order write-not-allowed, wildcard projection, missing LIMIT on a
\* large column, LIMIT too high, missing LIMIT: the reason of the first that matches
FirstRuleInStatedOrder(s, aw) ==
    IF LeadingKeyword(s) \in WriteWords /\ ~aw THEN "WriteNotAllowed"
    ELSE IF HasWildcardProjection(s) THEN "WildcardProjection"
    ELSE IF MentionsLargeColumn(s) /\ ~HasRowLimitClause(s) THEN "MissingLimitOnLargeColumn"
    ELSE IF MentionsLargeColumn(s) /\ (\E b \in RowLimitBounds(s) : b > MaxLargeLimit)
         THEN "LimitTooHigh"
    ELSE IF ~HasRowLimitClause(s) THEN "MissingLimit"
    ELSE "Ok"

\* C22: when MindsDBTool.query rejects a SQL text, the reason it reports is that of the
\* first matching rule in the order write-not-allowed, wildcard projection, missing LIMIT
\* on a large column, LIMIT too high, missing LIMIT (a SELECT * that also reads raw_data
\* without a LIMIT is rejected as a wildcard projection).
C22_ReasonOfFirstRuleInStatedOrder ==
    (Returned("MindsDBTool.query") /\ ~result.executed)
        => result = Rejected(FirstRuleInStatedOrder(sql, allow_write))

\* C23: MindsDBTool.query sends no query to the executor that reads raw_data or
\* error_details and has a row-limiting clause, anywhere in the text, whose numeric
\* bound is greater than 10.
C23_LargeColumnBoundAboveTenNeverExecuted ==
    (Returned("MindsDBTool.query") /\ MentionsLargeColumn(sql)
        /\ \E b \in RowLimitBounds(sql) : b > MaxLargeLimit)
        => ~result.executed

\* C24: MindsDBTool.query rejects every SQL text with an unqualified wildcard projection,
\* in any letter case and with any whitespace between SELECT and *, and sends no request
\* to the executor for it.
C24_WildcardProjectionNeverExecuted ==
    (Returned("MindsDBTool.query") /\ HasWildcardProjection(sql))
        => (~result.success /\ ~result.executed)

SqlToolPaths ==
    { "execute_mindsdb_tool", "execute_postgres_direct_tool",
      "CityInsightsAnalyzer._execute_tool", "CityInsightsAnalyzerGemini._execute_tool" }

\* the tool call ran the SQL text of its arguments on an executor
RanRequestedSql ==
    /\ agent = "tool" /\ pc = "returned" /\ fn \in SqlToolPaths /\ result.executed
    /\ fn = "execute_mindsdb_tool" => operation \in {"custom_query", "alter_table"}
    /\ fn = "execute_postgres_direct_tool" => operation = "custom_query"

\* C25: a statement whose leading keyword is a write/DDL keyword reaches an executor
\* through execute_mindsdb_tool (custom_query, alter_table), query_postgres_direct
\* (custom_query) or query_database only if the tool call carried allow_write = true.
C25_WriteExecutedOnlyWithAllowWrite ==
    (RanRequestedSql /\ LeadingKeyword(sql) \in WriteWords)
        => (fn = "execute_mindsdb_tool" /\ allow_write)

(***************************************************************************)
(* Vocabulary of the claims about pruning and provider failures.           *)
(***************************************************************************)
\* m[i] is a tool result and an earlier message of m is the assistant turn that
\* issued its call id
IssuedBefore(m, i) ==
    \E j \in 1..(i - 1) : m[j].role = "assistant" /\ m[i].results[1] \in Range(m[j].calls)

\* MindsDBAgent.run was started with an empty conversation_history (messages[0] is
\* kept by every prune)
StartedWithoutHistory == agent = "mindsdb" /\ messages[1] = UserMsg("user_message")

\* C26: in the conversation of MindsDBAgent.run, after any prune, every tool-result
\* message is preceded within the conversation by the assistant message that issued
\* its call id, also when a turn carried several tool calls.
C26_KeptResultsFollowTheirRequest ==
    (agent = "mindsdb" /\ pc = "complete")
        => \A i \in 1..Len(messages) : messages[i].role = "tool" => IssuedBefore(messages, i)

\* C27: the conversation handed to a completion call holds at most 6 messages in
\* analyze_city and at most 12 messages in MindsDBAgent.run started without history,
\* after any number of tool turns and whatever the number of tool calls of a turn.
C27_ConversationSentIsBounded ==
    AboutToComplete =>
        /\ agent = "city" => Len(NextConversation) <= CityKeep
        /\ StartedWithoutHistory => Len(NextConversation) <= PruneThreshold

\* MindsDBAgent.run without history is about to send a conversation that a prune has
\* cut to the first message and a tail of ten
C27_Witness ==
    /\ StartedWithoutHistory /\ pc = "complete"
    /\ Len(messages) = PruneKeep + 1 /\ calls >= 4

\* C28: in analyze_city a context-overflow error cuts the conversation to the last
\* assistant/tool-result pair and the request is retried once; when the retry
\* overflows again the run ends with that error and is not retried further.
C28_SecondOverflowEndsTheRun ==
    (agent = "city" /\ overflows >= 2) => (pc = "raised" /\ outcome = "completion_error")

\* C29: in analyze_city rate-limit and context-overflow retries use up none of the 12
\* iterations: the budget-exhausted outcome is reached only after the model returned
\* turns, never through provider failures alone.
C29_FailuresAloneNeverExhaustBudget ==
    (agent = "city" /\ outcome = "max_iterations") => response # NoResponse

\* the attempts made so far for the completion turn MindsDBAgent.run is working on
\* (every sleep of the retry loop follows one failed attempt)
FailedAttempts == Len(slept) + (IF outcome = "rate_limit_error" THEN 1 ELSE 0)

\* C30: MindsDBAgent.run attempts each completion turn at most 5 times; when the fifth
\* attempt fails with a rate-limit error the error is propagated to the caller, the run
\* has no final answer, and it takes no further step (no further completion call).
C30_FifthRateLimitIsFatal ==
    [][ agent = "mindsdb" =>
          /\ FailedAttempts' <= 5
          /\ (pc = "complete" /\ FailedAttempts = 4 /\ FailedAttempts' = 5)
                => (pc' = "raised" /\ outcome' = "rate_limit_error" /\ answer' = NoValue)
          /\ outcome # "rate_limit_error" ]_vars

\* the fifth attempt of a completion call made after a tool turn has failed with a
\* rate-limit error
C30_Witness ==
    /\ agent = "mindsdb" /\ pc = "raised" /\ outcome = "rate_limit_error"
    /\ retry = max_retries - 1 /\ Len(messages) >= 3 /\ answer = NoValue

(***************************************************************************)
(* Vocabulary of the claims about failures and the order of a turn.        *)
(***************************************************************************)
\* the next step of the run is a completion call
CompletionAttempt ==
    \/ agent = "mindsdb" /\ pc = "complete"
    \/ agent = "city" /\ pc = "loop" /\ iteration < CityMaxIterations
    \/ agent = "gemini" /\ pc = "initial"
    \/ agent = "gemini" /\ pc = "dispatch" /\ Len(tool_results) = Len(response.ids)

\* outcomes that hand the provider's error to the caller: a raised exception, or the
\* error text in the returned dict
ErrorOutcomes == {"completion_error", "initial_failed"}

\* C31: in every agent a completion call that fails with an error that is neither a
\* rate limit nor a context overflow ends the run in that step, and the run ends with
\* the error itself surfaced to the caller.
C31_OtherFailureEndsRunWithTheError ==
    [][ (CompletionAttempt /\ pc' \in {"done", "raised"}
            /\ outcome' \notin {"final", "rate_limit_error"})
          => outcome' \in ErrorOutcomes ]_vars

\* requests of the turn being handled are still to be executed
RequestsPending == pc = "dispatch" /\ Len(tool_results) < Len(response.ids)

\* C32: the tool requests of one assistant turn are executed one after another in the
\* order the model emitted them, and whatever happens to one of them (executor error,
\* guard rejection, unfit arguments, raised exception) the next step answers it and the
\* run goes on with the remaining requests of the turn.
C32_EveryRequestOfTurnIsAnsweredInOrder ==
    [][ (agent \in {"mindsdb", "city", "gemini"} /\ RequestsPending)
          => /\ pc' = "dispatch"
             /\ tool_results' = Append(tool_results, response.ids[Len(tool_results) + 1])
             /\ response' = response ]_vars

\* decoding the final text raised JSONDecodeError
DecodingFailed == ~json_loads(json_str_of(text)).ok

EmptyList == JValue("array", <<>>, <<>>)

\* C33: when decoding the final text fails, analyze_city answers with the fallback
\* record: summary = the first 200 characters of the text, detail = the text itself,
\* sources_used = empty, confidence = 0.5, recommendations = empty.
C33_FallbackAnswerFields ==
    ((\E name \in AnalyzeCityVariants : ParsedBy(name)) /\ DecodingFailed) =>
        /\ IsFinalAnswer(answer)
        /\ Get(answer, Str_insight_summary)
              = JValue("string", SubSeq(text, 1, Min(Len(text), 200)), <<>>)
        /\ Get(answer, Str_detailed_analysis) = JValue("string", text, <<>>)
        /\ Get(answer, Str_data_sources_used) = EmptyList
        /\ Get(answer, Str_confidence_score) = JValue("number", Str_half, <<>>)
        /\ Get(answer, Str_recommendations) = EmptyList

\* C34: a run ends with a final answer only on a model turn that carries no tool
\* requests: a turn with one or more requests is dispatched whatever its finish or stop
\* reason, and is never returned as the final answer.
C34_FinalAnswerOnlyFromTurnWithoutRequests ==
    (agent \in {"mindsdb", "city", "gemini"} /\ pc = "done" /\ outcome = "final")
        => response.ids = <<>>

\* reasons with which the query guards answer without calling an executor
GuardReasons ==
    {"WriteNotAllowed", "MissingLimitOnLargeColumn", "LimitTooHigh", "WildcardProjection",
     "LimitRequired"}

GuardRejection(r) == ~r.success /\ ~r.executed /\ r.error \in GuardReasons

\* the step executes a tool request and the guard rejects it
RejectingStep == result' # result /\ GuardRejection(result')

\* every request of the turn is answered and the latest one was rejected by a guard
TurnEndsOnRejection == pc = "dispatch" /\ ~RequestsPending /\ GuardRejection(result)

\* what a step of a run does about guard rejections
HandlesRejection ==
    /\ RejectingStep =>
          /\ pc' = "dispatch" /\ outcome' = "none"
          /\ tool_results' = Append(tool_results, response.ids[Len(tool_results) + 1])
    /\ (TurnEndsOnRejection /\ agent # "gemini") =>
          /\ pc' \in {"complete", "loop"} /\ outcome' = "none"
          /\ messages'[Len(messages')].results # <<>>
          /\ WellPaired(messages')
    /\ (TurnEndsOnRejection /\ agent = "gemini") => calls' = calls + 1

\* C35: a query-guard rejection does not end the run: the rejection is recorded as the
\* result of its call id, and once the turn's requests are answered the results are
\* handed to the model and the loop goes on to its next completion call.
C35_GuardRejectionIsAnsweredAndRunGoesOn ==
    [][(agent \in {"mindsdb", "city", "gemini"}) => HandlesRejection]_vars

\* MindsDBAgent.run has answered both requests of a turn, the second with the
\* rejection of the LIMIT guard
C35_Witness ==
    /\ agent = "mindsdb" /\ TurnEndsOnRejection
    /\ Len(tool_results) = 2 /\ result = Rejected("LimitRequired")

(***************************************************************************)
(* Vocabulary of the claims about side effects.                            *)
(***************************************************************************)
\* effect a occurs in the log and effect b occurs before it
Follows(a, b) ==
    \A i \in 1..Len(effects) : effects[i] = a => \E j \in 1..(i - 1) : effects[j] = b

\* C36: in analyze_and_store the INSERT is executed only if analyze_city succeeded, the
\* alert call is made only after the INSERT succeeded, alert_sent is set only after the
\* alert call succeeded, and an alert that fails leaves the overall result a success.
C36_SideEffectsInOrderAndAlertNotFatal ==
    (agent = "store" /\ job.entry = "analyze_and_store") =>
        /\ (\E i \in 1..Len(effects) : effects[i] \in {"insert", "insert_failed"})
              => job.analysis = "success"
        /\ Follows("alert", "insert") /\ Follows("alert_failed", "insert")
        /\ Follows("update", "alert") /\ Follows("update_failed", "alert")
        /\ (pc = "returned" /\ job.store = "success" /\ job.alert \in {"failure", "raised"})
              => job.success

C37_CallersHistoryIsNotModified ==
    agent = "pair" =>
        \A r \in Runs : runs[r].agent = "mindsdb" =>
            heap[request_history(r)] \in {History(k) : k \in HistoryPairs}

\* C39: two export calls without a filename never share a file: every export that
\* reported success without a filename has a filepath no other such export reported,
\* and the file at that filepath holds the rows of that export.
C39_ExportsWithoutFilenameKeepTheirFiles ==
    agent = "export" =>
        \A i \in ExportCalls :
            (/\ exports[i].state = "returned" /\ exports[i].result.success
             /\ exports[i].filename = "None")
            => /\ \E f \in files : /\ f.path = exports[i].result.filepath
                                   /\ f.rows = exports[i].data
               /\ \A j \in ExportCalls \ {i} :
                    (/\ exports[j].state = "returned" /\ exports[j].result.success
                     /\ exports[j].filename = "None")
                    => exports[j].result.filepath # exports[i].result.filepath

=============================================================================
